---- MODULE Spec2Model ----
(***************************************************************************)
(* A model of the minimuse cost-allocation and profit pipeline:            *)
(*   purchases: import_commit, edit_costs, _recalc_allocations             *)
(*   sales:     _gross_to_net, _compute_unit_cost_basis, import_commit     *)
(*   admin:     metrics_recompute, users, db_patch                         *)
(*   imports:   import_parse (purchases and sales)                         *)
(*   access:    login_required, require_role, require_edit_permission      *)
(*   cache:     TTLCache, api_search                                       *)
(*                                                                         *)
(* Money is counted in ticks of 0.0001, the scale of the Numeric(12,4)     *)
(* columns.  A nullable column is <<>> (None) or <<v>>.  Dates are day     *)
(* numbers.  Rows of a table are the elements of a sequence; a row's id is *)
(* its index.                                                              *)
(*                                                                         *)
(* Specifications: SpecPO (purchase import commit and cost edits),         *)
(* SpecCost (cost basis of a sale), SpecVat (VAT back-out), SpecSales      *)
(* (sales import commit), SpecMetrics (metrics over imported sales),       *)
(* SpecParse (uploads of import files), SpecRole (the role check of one    *)
(* request), SpecAuth (the data-changing routes under sessions of every    *)
(* role), SpecPatch (the schema patch), SpecCache (the search cache).      *)
(***************************************************************************)
EXTENDS Integers, Sequences, FiniteSets, TLC

VARIABLES
    today,              \* datetime.utcnow().date()
    items,              \* items table: sku -> vat_rate (percent)
    purchase_orders,    \* purchase_orders table
    purchase_lines,     \* purchase_lines table
    import_batches,     \* import_batches table
    sales_orders,       \* sales_orders table
    sales_lines,        \* sales_lines table
    daily_metrics,      \* daily_metrics table
    sku_metrics_daily,  \* sku_metrics_daily table
    last,               \* the last request and what it returned
    users,              \* users table
    saved_searches,     \* saved_searches table
    current_user,       \* the session: None (anonymous) or the id of the logged-in user
    config,             \* app.config
    schema,             \* the database schema: tables, columns, constraints, indexes
    store,              \* TTLCache._store: key -> <<expires_at, value>>
    now                 \* time.time()

vars == <<today, items, purchase_orders, purchase_lines, import_batches,
          sales_orders, sales_lines, daily_metrics, sku_metrics_daily, last,
          users, saved_searches, current_user, config, schema, store, now>>

\* the accounts, the session, the configuration, the schema and the cache
appvars == <<users, saved_searches, current_user, config, schema, store, now>>

----------------------------------------------------------------------------
(* Values                                                                  *)

None == << >>
Some(v) == <<v>>
IsNone(x) == x = << >>
Val(x) == x[1]
\* `x or 0` / `x if x is not None else 0` on a nullable number
OrZero(x) == IF IsNone(x) THEN 0 ELSE Val(x)

Abs(n) == IF n < 0 THEN -n ELSE n

RECURSIVE SumSeq(_)
SumSeq(s) == IF s = << >> THEN 0 ELSE Head(s) + SumSeq(Tail(s))

RECURSIVE SumOver(_, _)
\* the sum of f[i] over the row ids i of a set
SumOver(S, f) ==
    IF S = {} THEN 0
    ELSE LET i == CHOOSE x \in S : TRUE IN f[i] + SumOver(S \ {i}, f)

RECURSIVE InOrder(_)
\* the row ids of a set, in ascending order
InOrder(S) ==
    IF S = {} THEN << >>
    ELSE LET m == CHOOSE x \in S : \A y \in S : x <= y
         IN  <<m>> \o InOrder(S \ {m})

\* a faulty variant: the quotient truncated instead of rounded
RoundHalfAway_Truncate(n, d) == IF n >= 0 THEN n \div d ELSE -((-n) \div d)
\* n / d rounded to the nearest integer, ties away from zero (d > 0): what a
\* Numeric(p, s) column of the PostgreSQL database keeps of a value with more
\* than s decimals.  The Decimal context carries 28 significant digits, so
\* quantising the in-memory quotient and quantising the exact quotient agree.
RoundHalfAway(n, d) ==
    LET a == IF n >= 0 THEN n ELSE -n
        q == IF 2 * (a % d) >= d THEN (a \div d) + 1 ELSE a \div d
    IN  IF n >= 0 THEN q ELSE -q

\* a value in ticks as a Numeric(12,2) column stores it (a multiple of 100 ticks)
Numeric2(x) == 100 * RoundHalfAway(x, 100)

----------------------------------------------------------------------------
(* Bounds                                                                  *)

MaxLines == 2       \* lines of one imported order
MaxPOs == 1         \* rows of purchase_orders

\* all sequences over S of length lo..hi
SeqsOf(S, lo, hi) == UNION {[1..n -> S] : n \in lo..hi}

----------------------------------------------------------------------------
(* purchases/routes.py                                                     *)

\* a value as a Numeric(12,4) column stores the quotient n / d of ticks
Numeric4(n, d) == RoundHalfAway(n, d)

\* the rows of purchase_lines with purchase_order_id = po_id (their indices)
LinesOf(plines, po_id) ==
    InOrder({i \in 1..Len(plines) : plines[i].purchase_order_id = po_id})

\* a faulty variant: the method ignored, every order allocated by quantity
LineBase_QtyOnly(method, ln) == ln.qty
\* the allocation base of a line: qty, or unit_cost_net * qty by default
LineBase(method, ln) ==
    IF method = "qty" THEN ln.qty ELSE ln.unit_cost_net * ln.qty

\* po.allocation_method or "value"
MethodOf(po) == IF po.allocation_method = "" THEN "value" ELSE po.allocation_method

\* a faulty variant: every line charged the whole freight
AllocOf_Whole(F, base, base_total) ==
    IF base_total > 0 THEN <<F, 1>> ELSE <<0, 1>>
\* the freight share of one line as the exact quotient <<num, den>>, den > 0
AllocOf(F, base, base_total) ==
    IF base_total > 0 THEN <<F * base, base_total>> ELSE <<0, 1>>

\* a faulty variant: the line's freight not divided by qty
PerUnitOf_NoDivide(alloc, ln_qty) == alloc
\* alloc / qty as the exact quotient, with qty = (ln.qty or 0) or 1
PerUnitOf(alloc, ln_qty) ==
    LET qty == IF ln_qty = 0 THEN 1 ELSE ln_qty
    IN  IF qty > 0 THEN <<alloc[1], alloc[2] * qty>> ELSE <<0, 1>>

\* one line after the loop body of _recalc_allocations and the commit
RecalcLine(ln, F, method, base_total) ==
    LET pkg == OrZero(ln.packaging_per_unit)
    IN  IF F <= 0
        THEN [ln EXCEPT !.freight_allocated_total = Some(0),
                        !.freight_allocated_per_unit = Some(0),
                        !.landed_unit_cost = Some(ln.unit_cost_net + pkg)]
        ELSE LET alloc == AllocOf(F, LineBase(method, ln), base_total)
                 per   == PerUnitOf(alloc, ln.qty)
             IN  [ln EXCEPT
                    !.freight_allocated_total = Some(Numeric4(alloc[1], alloc[2])),
                    !.freight_allocated_per_unit = Some(Numeric4(per[1], per[2])),
                    !.landed_unit_cost =
                        Some(Numeric4((ln.unit_cost_net + pkg) * per[2] + per[1], per[2]))]

\* sum(base of ln for ln in lines) over the lines of the order
BaseTotal(plines, idx, method) ==
    SumSeq([k \in 1..Len(idx) |-> LineBase(method, plines[idx[k]])])

\* _recalc_allocations(po): the purchase_lines table after it
_recalc_allocations(pos, plines, po_id) ==
    LET po     == pos[po_id]
        idx    == LinesOf(plines, po_id)
        F      == OrZero(po.freight_total)
        method == MethodOf(po)
        bt     == BaseTotal(plines, idx, method)
    IN  [i \in 1..Len(plines) |->
            IF plines[i].purchase_order_id = po_id
            THEN RecalcLine(plines[i], F, method, bt)
            ELSE plines[i]]

RECURSIVE RecalcAll(_, _, _)
\* for po in new_pos: _recalc_allocations(po)
RecalcAll(pos, plines, ids) ==
    IF ids = << >> THEN plines
    ELSE RecalcAll(pos, _recalc_allocations(pos, plines, Head(ids)), Tail(ids))

\* Item.query.filter_by(sku=sku).first()
HasItem(its, sku) == sku \in DOMAIN its

\* the vat_rate a newly created Item gets: Decimal("18.00")
NewItemVat == 18

RECURSIVE PurchCommitLines(_, _, _, _)
\* the inner loop of import_commit over po_data["lines"]:
\* st = [items, plines]; a line whose SKU is unknown is skipped unless
\* create_missing
PurchCommitLines(st, po_id, lns, create_missing) ==
    IF lns = << >> THEN st
    ELSE LET ln   == Head(lns)
             its1 == IF ln.sku # "" /\ ~HasItem(st.items, ln.sku) /\ create_missing
                     THEN st.items @@ (ln.sku :> NewItemVat) ELSE st.items
             row  == [purchase_order_id |-> po_id, sku |-> ln.sku, qty |-> ln.qty,
                      unit_cost_net |-> ln.unit_cost_net,
                      packaging_per_unit |-> Some(ln.packaging_per_unit),
                      freight_allocated_total |-> None,
                      freight_allocated_per_unit |-> None,
                      landed_unit_cost |-> None]
             st1  == IF ln.sku = "" \/ ~HasItem(its1, ln.sku)
                     THEN [st EXCEPT !.items = its1]
                     ELSE [items |-> its1, plines |-> Append(st.plines, row)]
         IN  PurchCommitLines(st1, po_id, Tail(lns), create_missing)

RECURSIVE PurchCommitOrders(_, _, _, _)
\* the outer loop of import_commit over payload["orders"]:
\* st = [items, pos, plines]
PurchCommitOrders(st, orders, create_missing, day) ==
    IF orders = << >> THEN st
    ELSE LET o    == Head(orders)
             po   == [order_number |-> o.order_number,
                      order_date |-> o.order_date,
                      arrival_date |-> o.arrival_date,
                      created_at |-> day,
                      freight_total |->
                          IF IsNone(o.freight_total) THEN None
                          ELSE Some(Numeric2(Val(o.freight_total))),
                      allocation_method |->
                          IF o.allocation_method = "" THEN "value"
                          ELSE o.allocation_method]
             pos1 == Append(st.pos, po)
             r    == PurchCommitLines([items |-> st.items, plines |-> st.plines],
                                      Len(pos1), o.lines, create_missing)
         IN  PurchCommitOrders([items |-> r.items, pos |-> pos1, plines |-> r.plines],
                               Tail(orders), create_missing, day)

\* POST /purchases/import/<batch_id>/commit
purchases_import_commit(batch_id, create_missing) ==
    /\ batch_id \in 1..Len(import_batches)
    /\ LET orders == import_batches[batch_id].orders
           st     == PurchCommitOrders([items |-> items, pos |-> purchase_orders,
                                        plines |-> purchase_lines],
                                       orders, create_missing, today)
           new    == [k \in 1..Len(orders) |-> Len(st.pos) + 1 - k]
       IN  /\ Len(st.pos) <= MaxPOs
           /\ items' = st.items
           /\ purchase_orders' = st.pos
           /\ purchase_lines' = RecalcAll(st.pos, st.plines, new)
           /\ last' = [op |-> "purchases.import_commit"]
    /\ UNCHANGED <<appvars, today, import_batches, sales_orders, sales_lines,
                   daily_metrics, sku_metrics_daily>>

\* POST /purchases/<po_id>/costs with a valid form
edit_costs(po_id, freight_total, allocation_method) ==
    /\ po_id \in 1..Len(purchase_orders)
    /\ LET pos1 == [purchase_orders EXCEPT
                      ![po_id].freight_total =
                          IF IsNone(freight_total) THEN None
                          ELSE Some(Numeric2(Val(freight_total))),
                      ![po_id].allocation_method = allocation_method]
       IN  /\ purchase_orders' = pos1
           /\ purchase_lines' = _recalc_allocations(pos1, purchase_lines, po_id)
           /\ last' = [op |-> "purchases.edit_costs"]
    /\ UNCHANGED <<appvars, today, items, import_batches, sales_orders, sales_lines,
                   daily_metrics, sku_metrics_daily>>


----------------------------------------------------------------------------
(* Decimal arithmetic                                                      *)

\* The significant digits a Decimal quotient keeps.  Python's default
\* context keeps 28; the model keeps fewer so that the coefficients fit.
DecimalPrec == 6

RECURSIVE Pow10(_)
Pow10(k) == IF k = 0 THEN 1 ELSE 10 * Pow10(k - 1)

\* n / d (n >= 0, d > 0) to the nearest integer, ties to even: the rounding
\* of the default Decimal context, ROUND_HALF_EVEN
RoundHalfEven(n, d) ==
    LET q == n \div d
        r == n % d
    IN  IF 2 * r > d \/ (2 * r = d /\ q % 2 = 1) THEN q + 1 ELSE q

RECURSIVE QuotientExp(_, _, _)
\* the most decimals e >= k at which n / d still has at most DecimalPrec digits
QuotientExp(n, d, k) ==
    IF (n * Pow10(k)) \div d < Pow10(DecimalPrec - 1)
    THEN QuotientExp(n, d, k + 1) ELSE k

\* the Decimal n / d (n >= 0, d > 0) as <<coefficient, decimals>>: its value
\* is coefficient / 10^decimals
DecimalOf(q) ==
    IF q[1] = 0 THEN <<0, 0>>
    ELSE IF q[2] = 1 THEN <<q[1], 0>>
    ELSE LET e == QuotientExp(q[1], q[2], 0)
         IN  <<RoundHalfEven(q[1] * Pow10(e), q[2]), e>>

----------------------------------------------------------------------------
(* sales/routes.py: VAT                                                    *)

\* the vat rate _gross_to_net falls back on: Decimal("18.00")
DefaultVat == 18

\* a faulty variant: the net taken as gross * vat / 100, the VAT share
gross_to_net_VatShare(gross, vat_rate) ==
    LET vr == IF IsNone(vat_rate) THEN DefaultVat ELSE Val(vat_rate)
    IN  IF 100 + vr <= 0 THEN gross ELSE <<gross[1] * vr, gross[2] * 100>>
\* _gross_to_net(gross, vat_rate): gross / (1 + vat / 100) as the quotient
\* <<num, den>>, for a gross amount <<n, d>> and a vat rate in percent
_gross_to_net(gross, vat_rate) ==
    LET vr == IF IsNone(vat_rate) THEN DefaultVat ELSE Val(vat_rate)
    IN  IF 100 + vr <= 0 THEN gross
        ELSE <<gross[1] * 100, gross[2] * (100 + vr)>>

----------------------------------------------------------------------------
(* sales/routes.py: costing                                                *)

\* _effective_po_date(po): arrival_date, else order_date, else
\* created_at.date()
_effective_po_date(po) ==
    IF ~IsNone(po.arrival_date) THEN Val(po.arrival_date)
    ELSE IF ~IsNone(po.order_date) THEN Val(po.order_date)
    ELSE po.created_at

\* _line_landed_cost(pl): landed_unit_cost, else unit_cost_net + packaging
_line_landed_cost(pl) ==
    IF ~IsNone(pl.landed_unit_cost) THEN Val(pl.landed_unit_cost)
    ELSE pl.unit_cost_net + OrZero(pl.packaging_per_unit)

\* the joined rows of the SKU with qty > 0 as (eff, po_id, qty, cost), in
\* the order the query returns them
Enriched(pos, plines, sku) ==
    LET idx == InOrder({i \in 1..Len(plines) :
                           plines[i].sku = sku /\ plines[i].qty > 0})
    IN  [k \in 1..Len(idx) |->
            [eff   |-> _effective_po_date(pos[plines[idx[k]].purchase_order_id]),
             po_id |-> plines[idx[k]].purchase_order_id,
             qty   |-> plines[idx[k]].qty,
             cost  |-> _line_landed_cost(plines[idx[k]])]]

RECURSIVE Filter(_, _)
\* [r for r in rows if r.eff <= sale_date]
Filter(rows, sale_date) ==
    IF rows = << >> THEN << >>
    ELSE (IF Head(rows).eff <= sale_date THEN <<Head(rows)>> ELSE << >>)
             \o Filter(Tail(rows), sale_date)

\* a faulty variant: purchases of the sale date itself left out
Before_Strict(rows, sale_date) == Filter(rows, sale_date - 1)
\* before = [r for r in enriched if r[0] <= sale_date]
Before(rows, sale_date) == Filter(rows, sale_date)

\* candidates = before if before else enriched
Candidates(enriched, sale_date) ==
    IF Before(enriched, sale_date) # << >> THEN Before(enriched, sale_date)
    ELSE enriched

RECURSIVE InsertDesc(_, _)
\* r put into a sequence sorted by eff descending, after the rows of equal eff
InsertDesc(sorted, r) ==
    IF sorted = << >> THEN <<r>>
    ELSE IF Head(sorted).eff >= r.eff THEN <<Head(sorted)>> \o InsertDesc(Tail(sorted), r)
    ELSE <<r>> \o sorted

RECURSIVE SortedReverse(_, _)
\* sorted(candidates, key=eff, reverse=True): stable, latest first
SortedReverse(done, rest) ==
    IF rest = << >> THEN done
    ELSE SortedReverse(InsertDesc(done, Head(rest)), Tail(rest))

\* a faulty variant: the oldest candidate taken instead of the latest
LastOf_Oldest(cands) ==
    LET sorted == SortedReverse(<< >>, cands) IN sorted[Len(sorted)]
\* candidates_sorted[0]
LastOf(cands) == SortedReverse(<< >>, cands)[1]

\* total_cost / total_qty over the candidates, as the quotient <<num, den>>
WeightedAvg(cands) ==
    <<SumSeq([k \in 1..Len(cands) |-> cands[k].qty * cands[k].cost]),
      SumSeq([k \in 1..Len(cands) |-> cands[k].qty])>>

\* _compute_unit_cost_basis(sku, sale_date, method): the unit cost as the
\* Decimal quotient <<num, den>> and the source purchase order id
_compute_unit_cost_basis(pos, plines, sku, sale_date, method) ==
    LET enriched == Enriched(pos, plines, sku)
        cands    == Candidates(enriched, sale_date)
    IN  IF sku = "" \/ enriched = << >>
        THEN [unit_cost_basis |-> <<0, 1>>, cost_source_po_id |-> None]
        ELSE IF method = "last"
        THEN [unit_cost_basis |-> <<LastOf(cands).cost, 1>>,
              cost_source_po_id |-> Some(LastOf(cands).po_id)]
        ELSE IF WeightedAvg(cands)[2] <= 0
        THEN [unit_cost_basis |-> <<0, 1>>, cost_source_po_id |-> None]
        ELSE [unit_cost_basis |-> WeightedAvg(cands), cost_source_po_id |-> None]

----------------------------------------------------------------------------
(* sales/routes.py: import commit                                          *)

\* SalesOrder.query.filter_by(channel=channel, order_number=order_number)
\* .first()
Existing(sos, channel, order_number) ==
    \E i \in 1..Len(sos) :
        sos[i].channel = channel /\ sos[i].order_number = order_number

\* a faulty variant: an existing order is not looked for
SkipOrder_Never(sos, o) == o.order_number = ""
\* the payload orders import_commit passes over: no order number, or the
\* (channel, order_number) already stored
SkipOrder(sos, o) ==
    o.order_number = "" \/ Existing(sos, o.channel, o.order_number)

\* a faulty variant: a line discount above the line's gross left negative
BaseAfterLineDiscount_NoFloor(ln) ==
    ln.unit_price_gross * ln.qty - ln.line_discount_gross
\* base_after_line_discount = max(0, unit_price_gross * qty - line discount)
BaseAfterLineDiscount(ln) ==
    IF ln.unit_price_gross * ln.qty - ln.line_discount_gross < 0 THEN 0
    ELSE ln.unit_price_gross * ln.qty - ln.line_discount_gross

RECURSIVE Prepare(_, _, _)
\* the first loop over o["lines"]: st = [items, prepared, n_items]
Prepare(st, lns, create_missing) ==
    IF lns = << >> THEN st
    ELSE LET ln   == Head(lns)
             make == ln.sku # "" /\ ~HasItem(st.items, ln.sku) /\ create_missing
             its1 == IF make THEN st.items @@ (ln.sku :> NewItemVat) ELSE st.items
             keep == ln.sku # "" /\ HasItem(its1, ln.sku) /\ ln.qty > 0
             st1  == [items    |-> its1,
                      prepared |-> IF keep
                                   THEN Append(st.prepared,
                                          [sku |-> ln.sku, qty |-> ln.qty,
                                           unit_price_gross |-> ln.unit_price_gross,
                                           line_discount_gross |-> ln.line_discount_gross,
                                           base |-> BaseAfterLineDiscount(ln)])
                                   ELSE st.prepared,
                      n_items  |-> st.n_items + (IF make THEN 1 ELSE 0)]
         IN  Prepare(st1, Tail(lns), create_missing)

\* a faulty variant: the order discount split evenly over the lines
OrderDiscountAlloc_Even(D, base, total_base, n) ==
    IF D > 0 /\ total_base > 0 THEN <<D, n>> ELSE <<0, 1>>
\* alloc = order_discount_total * (base / total_base) when both are > 0,
\* else 0: the quotient <<num, den>> (n is the number of prepared lines)
OrderDiscountAlloc(D, base, total_base, n) ==
    IF D > 0 /\ total_base > 0 THEN <<D * base, total_base>> ELSE <<0, 1>>

\* Decimal(str(item.vat_rate or Decimal("18.00")))
LineVat(its, sku) == IF its[sku] = 0 THEN DefaultVat ELSE its[sku]

\* the SalesLine built from a prepared line, as the commit stores it
SalesLineRow(p, so_id, D, total_base, n, its, pos, plines, order_date, cost_method) ==
    LET alloc == OrderDiscountAlloc(D, p.base, total_base, n)
        \* gross_after_all_discounts = max(0, base - alloc)
        gnum  == p.base * alloc[2] - alloc[1]
        gross == IF gnum < 0 THEN <<0, 1>> ELSE <<gnum, alloc[2]>>
        vat   == LineVat(its, p.sku)
        upn   == _gross_to_net(<<p.unit_price_gross, 1>>, Some(vat))
        rev   == _gross_to_net(gross, Some(vat))
        basis == _compute_unit_cost_basis(pos, plines, p.sku, order_date, cost_method)
        ucb   == basis.unit_cost_basis
    IN  [sales_order_id |-> so_id, sku |-> p.sku, qty |-> p.qty,
         unit_price_gross |-> p.unit_price_gross,
         line_discount_gross |->
             IF p.line_discount_gross = 0 THEN None ELSE Some(p.line_discount_gross),
         order_discount_alloc_gross |->
             IF alloc[1] = 0 THEN None ELSE Some(Numeric4(alloc[1], alloc[2])),
         vat_rate |-> vat,
         unit_price_net |-> Numeric4(upn[1], upn[2]),
         revenue_net |-> Numeric4(rev[1], rev[2]),
         cost_method |-> cost_method,
         unit_cost_basis |-> Numeric4(ucb[1], ucb[2]),
         cost_total |-> Numeric4(ucb[1] * p.qty, ucb[2]),
         profit |-> Numeric4(rev[1] * ucb[2] - ucb[1] * p.qty * rev[2], rev[2] * ucb[2]),
         cost_source_po_id |-> basis.cost_source_po_id]

RECURSIVE SalesCommitOrders(_, _, _, _, _, _, _)
\* the loop of import_commit over payload["orders"], k the order's place in
\* the payload: st = [items, sos, slines, created, n_lines, n_items, skipped]
SalesCommitOrders(st, orders, k, create_missing, cost_method, pos, plines) ==
    IF k > Len(orders) THEN st
    ELSE LET o == orders[k]
         IN  IF SkipOrder(st.sos, o)
             THEN SalesCommitOrders(
                      [st EXCEPT !.skipped = @ + (IF o.order_number = "" THEN 0 ELSE 1)],
                      orders, k + 1, create_missing, cost_method, pos, plines)
             ELSE LET D    == OrZero(o.order_discount_gross)
                      so   == [order_number |-> o.order_number,
                               order_date |-> o.order_date,
                               channel |-> o.channel,
                               order_discount_gross |->
                                   IF D = 0 THEN None ELSE Some(Numeric2(D))]
                      sos1 == Append(st.sos, so)
                      pr   == Prepare([items |-> st.items, prepared |-> << >>,
                                       n_items |-> 0], o.lines, create_missing)
                      n    == Len(pr.prepared)
                      tb   == SumSeq([i \in 1..n |-> pr.prepared[i].base])
                      rows == [i \in 1..n |->
                                 SalesLineRow(pr.prepared[i], Len(sos1), D, tb, n,
                                              pr.items, pos, plines, o.order_date,
                                              cost_method)]
                  IN  SalesCommitOrders(
                          [items   |-> pr.items,
                           sos     |-> sos1,
                           slines  |-> st.slines \o rows,
                           created |-> Append(st.created,
                                              [so_id |-> Len(sos1), order |-> k]),
                           n_lines |-> st.n_lines + n,
                           n_items |-> st.n_items + pr.n_items,
                           skipped |-> st.skipped],
                          orders, k + 1, create_missing, cost_method, pos, plines)

\* cost_method = (request.form.get("cost_method") or "weighted_avg").strip()
FormCostMethod(m) == IF m = "" THEN "weighted_avg" ELSE m

\* POST /sales/import/<batch_id>/commit
sales_import_commit(batch_id, create_missing, cost_method) ==
    /\ batch_id \in 1..Len(import_batches)
    /\ LET st == SalesCommitOrders(
                     [items |-> items, sos |-> sales_orders, slines |-> sales_lines,
                      created |-> << >>, n_lines |-> 0, n_items |-> 0, skipped |-> 0],
                     import_batches[batch_id].orders, 1, create_missing,
                     FormCostMethod(cost_method), purchase_orders, purchase_lines)
       IN  /\ items' = st.items
           /\ sales_orders' = st.sos
           /\ sales_lines' = st.slines
           /\ last' = [op |-> "sales.import_commit", batch_id |-> batch_id,
                       created |-> st.created, created_lines |-> st.n_lines,
                       created_items |-> st.n_items, skipped_existing |-> st.skipped]
    /\ UNCHANGED <<appvars, today, purchase_orders, purchase_lines, import_batches,
                   daily_metrics, sku_metrics_daily>>

----------------------------------------------------------------------------
(* admin/routes.py: metrics                                                *)

InRange(d, d_from, d_to) == d >= d_from /\ d <= d_to

\* a faulty variant: the rows of the range are not deleted
KeptRows_All(rows, d_from, d_to) == rows
\* DELETE FROM ... WHERE metric_date >= :d_from AND metric_date <= :d_to:
\* the rows that stay
KeptRows(rows, d_from, d_to) ==
    LET keep == {i \in 1..Len(rows) : ~InRange(rows[i].metric_date, d_from, d_to)}
        ord  == InOrder(keep)
    IN  [k \in 1..Len(ord) |-> rows[ord[k]]]

\* sales_lines sl JOIN sales_orders so ON so.id = sl.sales_order_id
\* WHERE so.order_date = d: the ids of the lines
JoinedLines(sos, slines, d) ==
    {i \in 1..Len(slines) :
        /\ slines[i].sales_order_id \in 1..Len(sos)
        /\ sos[slines[i].sales_order_id].order_date = d}

\* COALESCE(sl.line_discount_gross,0) + COALESCE(sl.order_discount_alloc_gross,0)
LineDiscount(l) == OrZero(l.line_discount_gross) + OrZero(l.order_discount_alloc_gross)

\* the sum of two quotients
QAdd(a, b) ==
    IF a[2] = b[2] THEN <<a[1] + b[1], a[2]>>
    ELSE <<a[1] * b[2] + b[1] * a[2], a[2] * b[2]>>

RECURSIVE DiscountNet(_, _)
\* SUM(discount / (1 + (sl.vat_rate / 100))) over the lines L
DiscountNet(slines, L) ==
    IF L = {} THEN <<0, 1>>
    ELSE LET i == CHOOSE x \in L : TRUE
         IN  QAdd(<<LineDiscount(slines[i]) * 100, 100 + slines[i].vat_rate>>,
                  DiscountNet(slines, L \ {i}))

\* SUM(column) over the lines L
SumQty(slines, L) == SumOver(L, [i \in L |-> slines[i].qty])
SumRevenue(slines, L) == SumOver(L, [i \in L |-> slines[i].revenue_net])
SumCost(slines, L) == SumOver(L, [i \in L |-> slines[i].cost_total])
SumProfit(slines, L) == SumOver(L, [i \in L |-> slines[i].profit])
SumDiscount(slines, L) == SumOver(L, [i \in L |-> LineDiscount(slines[i])])

\* one row of INSERT INTO daily_metrics ... GROUP BY so.order_date::date
DailyRow(slines, d, L) ==
    [metric_date |-> d,
     orders_count |-> Cardinality({slines[i].sales_order_id : i \in L}),
     units |-> SumQty(slines, L),
     revenue_net |-> SumRevenue(slines, L),
     cogs |-> SumCost(slines, L),
     profit |-> SumProfit(slines, L),
     discount_gross |-> SumDiscount(slines, L),
     discount_net |-> Numeric4(DiscountNet(slines, L)[1], DiscountNet(slines, L)[2])]

\* one row of INSERT INTO sku_metrics_daily ... GROUP BY date, sl.sku
SkuRow(slines, d, sku, L) ==
    [metric_date |-> d, sku |-> sku,
     units |-> SumQty(slines, L),
     revenue_net |-> SumRevenue(slines, L),
     profit |-> SumProfit(slines, L),
     discount_gross |-> SumDiscount(slines, L),
     discount_net |-> Numeric4(DiscountNet(slines, L)[1], DiscountNet(slines, L)[2])]

\* the dates of the range that have joined lines, ascending
GroupDates(sos, slines, d_from, d_to) ==
    InOrder({d \in d_from..d_to : JoinedLines(sos, slines, d) # {}})

DailyRows(sos, slines, d_from, d_to) ==
    LET ds == GroupDates(sos, slines, d_from, d_to)
    IN  [k \in 1..Len(ds) |-> DailyRow(slines, ds[k], JoinedLines(sos, slines, ds[k]))]

RECURSIVE SkuRowsOf(_, _, _)
\* the rows of one date, one per SKU of its lines
SkuRowsOf(slines, d, L) ==
    IF L = {} THEN << >>
    ELSE LET i    == CHOOSE x \in L : \A y \in L : x <= y
             same == {j \in L : slines[j].sku = slines[i].sku}
         IN  <<SkuRow(slines, d, slines[i].sku, same)>>
                 \o SkuRowsOf(slines, d, L \ same)

RECURSIVE SkuRows(_, _, _)
SkuRows(sos, slines, ds) ==
    IF ds = << >> THEN << >>
    ELSE SkuRowsOf(slines, Head(ds), JoinedLines(sos, slines, Head(ds)))
             \o SkuRows(sos, slines, Tail(ds))

\* _recompute_metrics_range(d_from, d_to): the two tables afterwards
_recompute_metrics_range(sos, slines, daily, skud, d_from, d_to) ==
    [daily |-> KeptRows(daily, d_from, d_to)
                   \o DailyRows(sos, slines, d_from, d_to),
     skud  |-> KeptRows(skud, d_from, d_to)
                   \o SkuRows(sos, slines, GroupDates(sos, slines, d_from, d_to))]

\* POST /admin/metrics: d_from and d_to are the parsed form dates (None when
\* missing or malformed); db_error is an exception raised by the database,
\* after which the transaction is rolled back
metrics_recompute(d_from, d_to, db_error) ==
    LET valid == ~IsNone(d_from) /\ ~IsNone(d_to) /\ Val(d_from) <= Val(d_to)
        ok    == valid /\ ~db_error
    IN  /\ ~valid => ~db_error
        /\ IF ok
           THEN LET r == _recompute_metrics_range(sales_orders, sales_lines,
                             daily_metrics, sku_metrics_daily, Val(d_from), Val(d_to))
                IN  /\ daily_metrics' = r.daily
                    /\ sku_metrics_daily' = r.skud
           ELSE UNCHANGED <<daily_metrics, sku_metrics_daily>>
        /\ last' = [op |-> "admin.metrics_recompute", d_from |-> d_from,
                    d_to |-> d_to, ok |-> ok,
                    deleted |-> IF ok
                                THEN Len(daily_metrics)
                                       - Len(KeptRows(daily_metrics, Val(d_from), Val(d_to)))
                                ELSE 0]
        /\ UNCHANGED <<appvars, today, items, purchase_orders, purchase_lines,
                       import_batches, sales_orders, sales_lines>>

----------------------------------------------------------------------------
(* purchases/routes.py and sales/routes.py: import parse                   *)
(*                                                                         *)
(* An uploaded file is [fieldnames, rows]: the header cells as             *)
(* csv.DictReader reads them, and one sequence of cells per data row.      *)
(* Cells are strings; the conversions below are tables over the strings    *)
(* that occur in the files of this model.  The text columns that are only  *)
(* copied into the payload (supplier, brand, description, colour, size,    *)
(* currency, customer) are left out of the payload.                        *)

PURCHASE_IMPORT_HEADERS ==
    << "Order Number", "Supplier", "Brand", "Order Date", "Arrival Date", "SKU",
       "Item Description", "Colour", "Size", "Weight", "Qty", "Net Unit Cost",
       "Packaging per unit", "Freight Total", "Allocation Method" >>

SALES_IMPORT_HEADERS ==
    << "Order Number", "Order Date", "Channel", "Currency", "Customer Name",
       "Customer Email", "Shipping Charged Gross", "Order Discount Gross", "SKU",
       "Item Description", "Qty", "Unit Price Gross", "Line Discount Gross" >>

\* str.strip()
Strip(s) ==
    CASE s = " Freight Total" -> "Freight Total"
      [] s = " Order Discount Gross" -> "Order Discount Gross"
      [] s = " SKU" -> "SKU"
      [] s = " A" -> "A"
      [] OTHER -> s

\* str.lower()
Lower(s) ==
    CASE s = "QTY" -> "qty"
      [] s = "WEB" -> "web"
      [] OTHER -> s

\* Decimal(s.replace(",", ".")): the value in ticks, None on InvalidOperation
ParseDecimal(s) ==
    CASE s = "2" -> Some(20000)
      [] s = "0" -> Some(0)
      [] s = "1,50" -> Some(15000)
      [] s = "-1" -> Some(-10000)
      [] OTHER -> None

\* _safe_date: the day number, None when empty or in none of the formats
_safe_date(s) ==
    CASE s = "2024-01-05" -> Some(5)
      [] s = "05/01/2024" -> Some(5)
      [] s = "2024-01-06" -> Some(6)
      [] OTHER -> None

Range(q) == {q[i] : i \in 1..Len(q)}

\* _validate_headers(fieldnames, expected_headers)
_validate_headers(fieldnames, expected_headers) ==
    LET given   == {Strip(g) : g \in Range(fieldnames)}
        missing == {h \in Range(expected_headers) : h \notin given}
        extra   == {g \in given : g \notin Range(expected_headers)}
    IN  [ok |-> missing = {} /\ extra = {}, missing |-> missing, extra |-> extra]

\* (r.get(name) or "").strip() for a row of csv.DictReader: the cell of the
\* last column whose header cell is name, "" when there is none
Get(fieldnames, r, name) ==
    LET cols == {i \in 1..Len(fieldnames) : fieldnames[i] = name /\ i <= Len(r)}
    IN  IF cols = {} THEN ""
        ELSE Strip(r[CHOOSE i \in cols : \A j \in cols : j <= i])

\* int(Decimal(qty_raw.replace(",", "."))) if qty_raw != "" else 0, and
\* qty_val <= 0 or an exception
QtyInvalid(qty_raw) ==
    IF qty_raw = "" THEN TRUE
    ELSE IF IsNone(ParseDecimal(qty_raw)) THEN TRUE
    ELSE Val(ParseDecimal(qty_raw)) \div 10000 <= 0

\* an optional cell that is given and does not parse
OptDecimalInvalid(v) == v # "" /\ IsNone(ParseDecimal(v))
OptDateInvalid(v) == v # "" /\ IsNone(_safe_date(v))

\* the fields of a purchases row that import_parse reports
PurchRowErrors(fn, r) ==
    {f \in Range(PURCHASE_IMPORT_HEADERS) :
        \/ f = "Order Number" /\ Get(fn, r, f) = ""
        \/ f = "SKU" /\ Get(fn, r, f) = ""
        \/ f = "Qty" /\ QtyInvalid(Get(fn, r, f))
        \/ f = "Net Unit Cost" /\ IsNone(ParseDecimal(Get(fn, r, f)))
        \/ f \in {"Order Date", "Arrival Date"} /\ OptDateInvalid(Get(fn, r, f))
        \/ f \in {"Packaging per unit", "Freight Total", "Weight"}
               /\ OptDecimalInvalid(Get(fn, r, f))
        \/ f = "Allocation Method"
               /\ Lower(Get(fn, r, f)) \notin {"", "value", "qty"}}

\* the fields of a sales row that import_parse reports
SalesRowErrors(fn, r) ==
    {f \in Range(SALES_IMPORT_HEADERS) :
        \/ f = "Order Number" /\ Get(fn, r, f) = ""
        \/ f = "SKU" /\ Get(fn, r, f) = ""
        \/ f = "Order Date" /\ IsNone(_safe_date(Get(fn, r, f)))
        \/ f = "Qty" /\ QtyInvalid(Get(fn, r, f))
        \/ f = "Unit Price Gross"
               /\ (IsNone(ParseDecimal(Get(fn, r, f)))
                   \/ OrZero(ParseDecimal(Get(fn, r, f))) <= 0)
        \/ f \in {"Shipping Charged Gross", "Order Discount Gross",
                  "Line Discount Gross"}
               /\ OptDecimalInvalid(Get(fn, r, f))}

\* errors: <<row number, field>> with the header row counted as row 1
PurchErrors(file) ==
    {e \in (2..(Len(file.rows) + 1)) \X Range(PURCHASE_IMPORT_HEADERS) :
        e[2] \in PurchRowErrors(file.fieldnames, file.rows[e[1] - 1])}

SalesErrors(file) ==
    {e \in (2..(Len(file.rows) + 1)) \X Range(SALES_IMPORT_HEADERS) :
        e[2] \in SalesRowErrors(file.fieldnames, file.rows[e[1] - 1])}

\* x if x is given, else y ("keep first non-empty")
FirstGiven(x, y) == IF IsNone(x) THEN y ELSE x

\* the place of the group of a key in groups, 0 when there is none
GroupOf(groups, key) ==
    LET at == {g \in 1..Len(groups) : groups[g].key = key}
    IN  IF at = {} THEN 0 ELSE CHOOSE g \in at : TRUE

RECURSIVE PurchGroups(_, _, _)
\* purchases import_parse: the loop that groups the rows by Order Number
PurchGroups(file, k, groups) ==
    IF k > Len(file.rows) THEN groups
    ELSE LET fn   == file.fieldnames
             r    == file.rows[k]
             on   == Get(fn, r, "Order Number")
             od   == _safe_date(Get(fn, r, "Order Date"))
             ad   == _safe_date(Get(fn, r, "Arrival Date"))
             ft   == IF Get(fn, r, "Freight Total") = "" THEN None
                     ELSE ParseDecimal(Get(fn, r, "Freight Total"))
             am   == IF Lower(Get(fn, r, "Allocation Method")) = "" THEN "value"
                     ELSE Lower(Get(fn, r, "Allocation Method"))
             ln   == [sku |-> Get(fn, r, "SKU"), qty |-> Get(fn, r, "Qty"),
                      unit_cost_net |-> Get(fn, r, "Net Unit Cost"),
                      packaging_per_unit |-> Get(fn, r, "Packaging per unit")]
             g    == GroupOf(groups, on)
         IN  IF on = "" THEN PurchGroups(file, k + 1, groups)
             ELSE IF g = 0
             THEN PurchGroups(file, k + 1,
                      Append(groups,
                             [key |-> on, order_number |-> on, order_date |-> od,
                              arrival_date |-> ad, freight_total |-> ft,
                              allocation_method |-> am, lines |-> <<ln>>]))
             ELSE PurchGroups(file, k + 1,
                      [groups EXCEPT
                          ![g].order_date = FirstGiven(@, od),
                          ![g].arrival_date = FirstGiven(@, ad),
                          ![g].freight_total = FirstGiven(@, ft),
                          ![g].lines = Append(@, ln)])

\* (r.get("Channel") or "unknown").strip().lower() or "unknown"
ChannelOf(fn, r) ==
    IF Lower(Get(fn, r, "Channel")) = "" THEN "unknown"
    ELSE Lower(Get(fn, r, "Channel"))

RECURSIVE SalesGroups(_, _, _)
\* sales import_parse: the loop that groups the rows by (channel, order number)
SalesGroups(file, k, groups) ==
    IF k > Len(file.rows) THEN groups
    ELSE LET fn   == file.fieldnames
             r    == file.rows[k]
             on   == Get(fn, r, "Order Number")
             ch   == ChannelOf(fn, r)
             od   == _safe_date(Get(fn, r, "Order Date"))
             sh   == IF Get(fn, r, "Shipping Charged Gross") = "" THEN None
                     ELSE ParseDecimal(Get(fn, r, "Shipping Charged Gross"))
             disc == IF Get(fn, r, "Order Discount Gross") = "" THEN None
                     ELSE ParseDecimal(Get(fn, r, "Order Discount Gross"))
             ln   == [sku |-> Get(fn, r, "SKU"), qty |-> Get(fn, r, "Qty"),
                      unit_price_gross |-> Get(fn, r, "Unit Price Gross"),
                      line_discount_gross |->
                          IF Get(fn, r, "Line Discount Gross") = "" THEN "0"
                          ELSE Get(fn, r, "Line Discount Gross")]
             g    == GroupOf(groups, <<ch, on>>)
         IN  IF g = 0
             THEN SalesGroups(file, k + 1,
                      Append(groups,
                             [key |-> <<ch, on>>, order_number |-> on,
                              order_date |-> od, channel |-> ch,
                              shipping_charged_gross |-> sh,
                              order_discount_gross |-> disc, lines |-> <<ln>>]))
             ELSE SalesGroups(file, k + 1,
                      [groups EXCEPT
                          ![g].shipping_charged_gross = FirstGiven(@, sh),
                          ![g].order_discount_gross = FirstGiven(@, disc),
                          ![g].lines = Append(@, ln)])

\* the SKUs of the groups that have no Item
MissingSkus(its, groups) ==
    (UNION { {groups[g].lines[i].sku : i \in 1..Len(groups[g].lines)} :
               g \in 1..Len(groups) }) \ (DOMAIN its \cup {""})

\* the checks of import_parse before the rows are read: a file was chosen,
\* it decodes as UTF-8, and the reader finds a header row
Readable(file) == file.filename # "" /\ file.utf8 /\ file.fieldnames # << >>

\* POST /purchases/import
purchases_import_parse(file) ==
    LET hdr    == _validate_headers(file.fieldnames, PURCHASE_IMPORT_HEADERS)
        errors == IF Readable(file) /\ hdr.ok THEN PurchErrors(file) ELSE {}
        groups == IF Readable(file) /\ hdr.ok /\ errors = {}
                  THEN PurchGroups(file, 1, << >>) ELSE << >>
    IN  /\ import_batches' =
              IF groups # << >>
              THEN Append(import_batches,
                          [kind |-> "purchase_import", orders |-> groups,
                           missing_skus |-> MissingSkus(items, groups)])
              ELSE import_batches
        /\ last' = [op |-> "purchases.import_parse", file |-> file,
                    header_issues |-> IF Readable(file) /\ ~hdr.ok
                                      THEN Some([missing |-> hdr.missing,
                                                 extra |-> hdr.extra])
                                      ELSE None,
                    row_errors |-> errors,
                    batch_id |-> IF groups # << >>
                                 THEN Some(Len(import_batches) + 1) ELSE None]
        /\ UNCHANGED <<appvars, today, items, purchase_orders, purchase_lines, sales_orders,
                       sales_lines, daily_metrics, sku_metrics_daily>>

\* POST /sales/import
sales_import_parse(file) ==
    LET hdr    == _validate_headers(file.fieldnames, SALES_IMPORT_HEADERS)
        errors == IF Readable(file) /\ hdr.ok THEN SalesErrors(file) ELSE {}
        groups == IF Readable(file) /\ hdr.ok /\ errors = {}
                  THEN SalesGroups(file, 1, << >>) ELSE << >>
    IN  /\ import_batches' =
              IF groups # << >>
              THEN Append(import_batches,
                          [kind |-> "sales_import", orders |-> groups,
                           missing_skus |-> MissingSkus(items, groups)])
              ELSE import_batches
        /\ last' = [op |-> "sales.import_parse", file |-> file,
                    header_issues |-> IF Readable(file) /\ ~hdr.ok
                                      THEN Some([missing |-> hdr.missing,
                                                 extra |-> hdr.extra])
                                      ELSE None,
                    row_errors |-> errors,
                    batch_id |-> IF groups # << >>
                                 THEN Some(Len(import_batches) + 1) ELSE None]
        /\ UNCHANGED <<appvars, today, items, purchase_orders, purchase_lines, sales_orders,
                       sales_lines, daily_metrics, sku_metrics_daily>>

----------------------------------------------------------------------------
(* decorators.py and the login session                                     *)

\* dict.get(key, default) / getattr(obj, name, default) on a nullable field
Getattr(x, default) == IF IsNone(x) THEN default ELSE Val(x)

ROLE_RANK == ("viewer" :> 1) @@ ("user" :> 2) @@ ("admin" :> 3)

\* flask_login.AnonymousUserMixin: no id, no role attribute
AnonymousUser ==
    [is_authenticated |-> FALSE, is_active |-> FALSE, id |-> None, role |-> None]

\* a User row as flask_login sees it: UserMixin.is_authenticated is
\* self.is_active, and is_active is the row's column
UserObject(id) ==
    [is_authenticated |-> users[id].is_active, is_active |-> users[id].is_active,
     id |-> Some(id), role |-> Some(users[id].role)]

\* flask_login.current_user: load_user(session id), anonymous when there is
\* no session or the row is gone
load_user ==
    IF IsNone(current_user) \/ Val(current_user) \notin 1..Len(users)
    THEN AnonymousUser
    ELSE UserObject(Val(current_user))

\* a faulty variant: an unknown role of the user ranks as admin
UserRank_Admin(cu) ==
    LET role == Getattr(cu.role, "viewer")
    IN  IF role \in DOMAIN ROLE_RANK THEN ROLE_RANK[role] ELSE 3

\* ROLE_RANK.get(getattr(current_user, "role", "viewer"), 1)
UserRank(cu) ==
    LET role == Getattr(cu.role, "viewer")
    IN  IF role \in DOMAIN ROLE_RANK THEN ROLE_RANK[role] ELSE 1

\* ROLE_RANK.get(min_role, 3)
RequiredRank(min_role) ==
    IF min_role \in DOMAIN ROLE_RANK THEN ROLE_RANK[min_role] ELSE 3

\* The wrappers below give the status the wrapper aborts with, or 0 when it
\* calls the wrapped function.
require_role(cu, min_role) ==
    IF ~cu.is_authenticated THEN 401
    ELSE IF UserRank(cu) < RequiredRank(min_role) THEN 403
    ELSE IF cu.is_active # TRUE THEN 403
    ELSE 0

require_admin(cu) == require_role(cu, "admin")

\* a faulty variant: every authenticated active user may edit
require_edit_permission_Any(cu) ==
    IF ~cu.is_authenticated THEN 401
    ELSE IF cu.is_active # TRUE THEN 403
    ELSE 0

require_edit_permission(cu) ==
    IF ~cu.is_authenticated THEN 401
    ELSE IF Getattr(cu.role, "viewer") = "viewer" THEN 403
    ELSE IF cu.is_active # TRUE THEN 403
    ELSE 0

\* flask_login.login_required: LoginManager.unauthorized() redirects to the
\* login view when one is configured and aborts with 401 otherwise
login_required(cu) ==
    IF cu.is_authenticated THEN 0
    ELSE IF IsNone(config.login_view) THEN 401 ELSE 302

\* @login_required over an inner wrapper: the first abort wins
Wrapped(outer, inner) == IF outer # 0 THEN outer ELSE inner

AdminRoute == Wrapped(login_required(load_user), require_admin(load_user))
EditRoute == Wrapped(login_required(load_user), require_edit_permission(load_user))

\* a request that a wrapper aborted: nothing is read or written
abort(route, status) ==
    /\ status # 0
    /\ last' = [op |-> route, status |-> status]
    /\ UNCHANGED <<appvars, today, items, purchase_orders, purchase_lines,
                   import_batches, sales_orders, sales_lines, daily_metrics,
                   sku_metrics_daily>>

\* POST /login with a valid form; password_ok is check_password's answer
login(email, password_ok) ==
    /\ last' = [op |-> "auth.login"]
    /\ LET found == {i \in 1..Len(users) : users[i].email = email}
       IN  IF load_user.is_authenticated \/ found = {} \/ ~password_ok
           THEN UNCHANGED current_user
           ELSE LET i == CHOOSE i \in found : TRUE
                IN  IF ~users[i].is_active THEN UNCHANGED current_user
                    ELSE current_user' = Some(i)
    /\ UNCHANGED <<users, saved_searches, config, schema, store, now, today, items,
                   purchase_orders, purchase_lines, import_batches, sales_orders,
                   sales_lines, daily_metrics, sku_metrics_daily>>

\* GET /logout
logout ==
    /\ last' = [op |-> "auth.logout"]
    /\ current_user' = IF load_user.is_authenticated THEN None ELSE current_user
    /\ UNCHANGED <<users, saved_searches, config, schema, store, now, today, items,
                   purchase_orders, purchase_lines, import_batches, sales_orders,
                   sales_lines, daily_metrics, sku_metrics_daily>>

----------------------------------------------------------------------------
(* admin/routes.py: users                                                  *)

\* POST /admin/users/new with a valid form
users_new(email, role, is_active) ==
    /\ IF \E i \in 1..Len(users) : users[i].email = email
       THEN /\ UNCHANGED users
            /\ last' = [op |-> "admin.users_new", created |-> FALSE]
       ELSE /\ users' = Append(users, [email |-> email, role |-> role,
                                       is_active |-> is_active])
            /\ last' = [op |-> "admin.users_new", created |-> TRUE]
    /\ UNCHANGED <<saved_searches, current_user, config, schema, store, now, today,
                   items, purchase_orders, purchase_lines, import_batches,
                   sales_orders, sales_lines, daily_metrics, sku_metrics_daily>>

\* POST /admin/users/<user_id>/edit with a valid form
users_edit(user_id, role, is_active) ==
    /\ IF user_id \notin 1..Len(users)
       THEN /\ UNCHANGED users
            /\ last' = [op |-> "admin.users_edit", saved |-> FALSE]
       ELSE IF Some(user_id) = load_user.id /\ is_active = FALSE
       THEN /\ UNCHANGED users
            /\ last' = [op |-> "admin.users_edit", saved |-> FALSE]
       ELSE /\ users' = [users EXCEPT ![user_id].role = role,
                                      ![user_id].is_active = is_active]
            /\ last' = [op |-> "admin.users_edit", saved |-> TRUE]
    /\ UNCHANGED <<saved_searches, current_user, config, schema, store, now, today,
                   items, purchase_orders, purchase_lines, import_batches,
                   sales_orders, sales_lines, daily_metrics, sku_metrics_daily>>

----------------------------------------------------------------------------
(* saved_searches/routes.py                                                *)

_CONTEXT_ENDPOINT == {"sales", "purchases"}

\* the rows other than one row id, in order
Without(s, i) == [k \in 1..(Len(s) - 1) |-> IF k < i THEN s[k] ELSE s[k + 1]]

\* POST /saved-searches/save; the url is the context's list page with the
\* non-empty filter fields
save(context, name, params) ==
    /\ IF context \notin _CONTEXT_ENDPOINT \/ name = ""
       THEN /\ UNCHANGED saved_searches
            /\ last' = [op |-> "saved_searches.save", stored |-> FALSE]
       ELSE LET uid      == Val(load_user.id)
                full_url == <<context, params>>
                existing == {i \in 1..Len(saved_searches) :
                                /\ saved_searches[i].user_id = uid
                                /\ saved_searches[i].context = context
                                /\ saved_searches[i].name = name}
            IN  /\ saved_searches' =
                      IF existing # {}
                      THEN [saved_searches EXCEPT
                              ![CHOOSE i \in existing : TRUE].url = full_url]
                      ELSE Append(saved_searches,
                                  [user_id |-> uid, context |-> context,
                                   name |-> name, url |-> full_url])
                /\ last' = [op |-> "saved_searches.save", stored |-> TRUE]
    /\ UNCHANGED <<users, current_user, config, schema, store, now, today,
                   items, purchase_orders, purchase_lines, import_batches,
                   sales_orders, sales_lines, daily_metrics, sku_metrics_daily>>

\* POST /saved-searches/<saved_id>/delete
delete(saved_id) ==
    /\ IF \/ saved_id \notin 1..Len(saved_searches)
          \/ Some(saved_searches[saved_id].user_id) # load_user.id
       THEN /\ UNCHANGED saved_searches
            /\ last' = [op |-> "saved_searches.delete", deleted |-> FALSE]
       ELSE /\ saved_searches' = Without(saved_searches, saved_id)
            /\ last' = [op |-> "saved_searches.delete", deleted |-> TRUE]
    /\ UNCHANGED <<users, current_user, config, schema, store, now, today,
                   items, purchase_orders, purchase_lines, import_batches,
                   sales_orders, sales_lines, daily_metrics, sku_metrics_daily>>

----------------------------------------------------------------------------
(* catalog/routes.py                                                       *)

\* POST /catalog/items/new with a valid form
items_new(sku, vat_rate) ==
    /\ IF sku \in DOMAIN items
       THEN /\ UNCHANGED items
            /\ last' = [op |-> "catalog.items_new", created |-> FALSE]
       ELSE /\ items' = items @@ (sku :> vat_rate)
            /\ last' = [op |-> "catalog.items_new", created |-> TRUE]
    /\ UNCHANGED <<appvars, today, purchase_orders, purchase_lines,
                   import_batches, sales_orders, sales_lines, daily_metrics,
                   sku_metrics_daily>>

\* POST /catalog/items/<item_id>/edit with a valid form; the item is named by
\* its current SKU
items_edit(sku, new_sku, vat_rate) ==
    /\ IF sku \notin DOMAIN items \/ (new_sku # sku /\ new_sku \in DOMAIN items)
       THEN /\ UNCHANGED items
            /\ last' = [op |-> "catalog.items_edit", updated |-> FALSE]
       ELSE /\ items' = [k \in (DOMAIN items \ {sku}) \cup {new_sku} |->
                            IF k = new_sku THEN vat_rate ELSE items[k]]
            /\ last' = [op |-> "catalog.items_edit", updated |-> TRUE]
    /\ UNCHANGED <<appvars, today, purchase_orders, purchase_lines,
                   import_batches, sales_orders, sales_lines, daily_metrics,
                   sku_metrics_daily>>

RECURSIVE ImportRows(_, _)
\* the loop over the rows of a catalog CSV: a row without SKU or description
\* is skipped, any other row creates or updates its item; a blank or
\* unreadable vat_rate_pct is 18
ImportRows(its, rows) ==
    IF rows = << >> THEN its
    ELSE LET row == Head(rows)
             vat == Getattr(row.vat_rate_pct, NewItemVat)
         IN  IF row.sku = "" \/ row.description = ""
             THEN ImportRows(its, Tail(rows))
             ELSE ImportRows([k \in DOMAIN its \cup {row.sku} |->
                                 IF k = row.sku THEN vat ELSE its[k]],
                             Tail(rows))

\* POST /catalog/import with a readable, non-empty CSV
import_csv(rows) ==
    /\ items' = ImportRows(items, rows)
    /\ last' = [op |-> "catalog.import_csv"]
    /\ UNCHANGED <<appvars, today, purchase_orders, purchase_lines,
                   import_batches, sales_orders, sales_lines, daily_metrics,
                   sku_metrics_daily>>

----------------------------------------------------------------------------
(* models.py and admin/routes.py: the schema and its patch                 *)

\* db.create_all(): the tables, columns, constraints and indexes of the models
create_all ==
    [tables |-> {"users", "saved_searches", "items", "purchase_orders",
        "purchase_lines", "import_batches", "sales_orders", "sales_lines",
        "daily_metrics", "sku_metrics_daily", "app_state"},
     columns |-> {<<"users", "id">>, <<"users", "email">>, <<"users",
        "name">>, <<"users", "password_hash">>, <<"users", "role">>,
        <<"users", "is_active">>, <<"users", "created_at">>, <<"users",
        "updated_at">>, <<"saved_searches", "id">>, <<"saved_searches",
        "user_id">>, <<"saved_searches", "context">>, <<"saved_searches",
        "name">>, <<"saved_searches", "url">>, <<"saved_searches",
        "created_at">>, <<"items", "id">>, <<"items", "sku">>, <<"items",
        "description">>, <<"items", "brand">>, <<"items", "supplier">>,
        <<"items", "colour">>, <<"items", "size">>, <<"items", "weight">>,
        <<"items", "vat_rate">>, <<"items", "is_active">>, <<"items",
        "created_at">>, <<"items", "updated_at">>, <<"purchase_orders",
        "id">>, <<"purchase_orders", "supplier_name">>, <<"purchase_orders",
        "brand">>, <<"purchase_orders", "order_number">>,
        <<"purchase_orders", "order_date">>, <<"purchase_orders",
        "arrival_date">>, <<"purchase_orders", "currency">>,
        <<"purchase_orders", "freight_total">>, <<"purchase_orders",
        "allocation_method">>, <<"purchase_orders", "created_at">>,
        <<"purchase_lines", "id">>, <<"purchase_lines",
        "purchase_order_id">>, <<"purchase_lines", "item_id">>,
        <<"purchase_lines", "sku">>, <<"purchase_lines", "description">>,
        <<"purchase_lines", "colour">>, <<"purchase_lines", "size">>,
        <<"purchase_lines", "qty">>, <<"purchase_lines", "unit_cost_net">>,
        <<"purchase_lines", "packaging_per_unit">>, <<"purchase_lines",
        "freight_allocated_total">>, <<"purchase_lines",
        "freight_allocated_per_unit">>, <<"purchase_lines",
        "landed_unit_cost">>, <<"purchase_lines", "created_at">>,
        <<"import_batches", "id">>, <<"import_batches", "kind">>,
        <<"import_batches", "filename">>, <<"import_batches", "payload">>,
        <<"import_batches", "created_at">>, <<"sales_orders", "id">>,
        <<"sales_orders", "order_number">>, <<"sales_orders",
        "order_date">>, <<"sales_orders", "channel">>, <<"sales_orders",
        "currency">>, <<"sales_orders", "customer_name">>, <<"sales_orders",
        "customer_email">>, <<"sales_orders", "shipping_charged_gross">>,
        <<"sales_orders", "order_discount_gross">>, <<"sales_orders",
        "created_at">>, <<"sales_lines", "id">>, <<"sales_lines",
        "sales_order_id">>, <<"sales_lines", "item_id">>, <<"sales_lines",
        "sku">>, <<"sales_lines", "description">>, <<"sales_lines", "qty">>,
        <<"sales_lines", "unit_price_gross">>, <<"sales_lines",
        "line_discount_gross">>, <<"sales_lines",
        "order_discount_alloc_gross">>, <<"sales_lines", "vat_rate">>,
        <<"sales_lines", "unit_price_net">>, <<"sales_lines",
        "revenue_net">>, <<"sales_lines", "cost_method">>, <<"sales_lines",
        "unit_cost_basis">>, <<"sales_lines", "cost_total">>,
        <<"sales_lines", "profit">>, <<"sales_lines", "cost_source_po_id">>,
        <<"sales_lines", "created_at">>, <<"daily_metrics", "id">>,
        <<"daily_metrics", "metric_date">>, <<"daily_metrics",
        "orders_count">>, <<"daily_metrics", "units">>, <<"daily_metrics",
        "revenue_net">>, <<"daily_metrics", "cogs">>, <<"daily_metrics",
        "profit">>, <<"daily_metrics", "discount_gross">>,
        <<"daily_metrics", "discount_net">>, <<"daily_metrics",
        "created_at">>, <<"daily_metrics", "updated_at">>,
        <<"sku_metrics_daily", "id">>, <<"sku_metrics_daily",
        "metric_date">>, <<"sku_metrics_daily", "sku">>,
        <<"sku_metrics_daily", "units">>, <<"sku_metrics_daily",
        "revenue_net">>, <<"sku_metrics_daily", "profit">>,
        <<"sku_metrics_daily", "discount_gross">>, <<"sku_metrics_daily",
        "discount_net">>, <<"sku_metrics_daily", "created_at">>,
        <<"app_state", "id">>, <<"app_state", "key">>, <<"app_state",
        "value">>, <<"app_state", "updated_at">>},
     constraints |-> {<<"users_pkey", "users">>, <<"saved_searches_pkey",
        "saved_searches">>, <<"saved_searches_user_id_fkey",
        "saved_searches">>, <<"uq_saved_search_user_context_name",
        "saved_searches">>, <<"items_pkey", "items">>,
        <<"purchase_orders_pkey", "purchase_orders">>,
        <<"purchase_lines_pkey", "purchase_lines">>,
        <<"purchase_lines_purchase_order_id_fkey", "purchase_lines">>,
        <<"purchase_lines_item_id_fkey", "purchase_lines">>,
        <<"import_batches_pkey", "import_batches">>, <<"sales_orders_pkey",
        "sales_orders">>, <<"uq_sales_orders_channel_order_number",
        "sales_orders">>, <<"sales_lines_pkey", "sales_lines">>,
        <<"sales_lines_sales_order_id_fkey", "sales_lines">>,
        <<"sales_lines_item_id_fkey", "sales_lines">>,
        <<"daily_metrics_pkey", "daily_metrics">>,
        <<"sku_metrics_daily_pkey", "sku_metrics_daily">>,
        <<"uq_sku_metrics_daily_date_sku", "sku_metrics_daily">>,
        <<"app_state_pkey", "app_state">>},
     indexes |-> {<<"ix_users_email", "users">>, <<"ix_items_sku",
        "items">>, <<"ix_purchase_orders_order_number", "purchase_orders">>,
        <<"ix_purchase_lines_sku", "purchase_lines">>,
        <<"ix_sales_orders_order_date", "sales_orders">>,
        <<"ix_sales_orders_channel", "sales_orders">>,
        <<"ix_sales_lines_sku", "sales_lines">>,
        <<"ix_sales_lines_sales_order_id", "sales_lines">>,
        <<"ix_sales_lines_item_id", "sales_lines">>,
        <<"ix_daily_metrics_metric_date", "daily_metrics">>,
        <<"ix_sku_metrics_daily_metric_date", "sku_metrics_daily">>,
        <<"ix_sku_metrics_daily_sku", "sku_metrics_daily">>,
        <<"ix_app_state_key", "app_state">>}]

\* the statements of the schema patch, in order
_db_patch_statements ==
    << [kind |-> "create_table", table |-> "saved_searches", columns |->
          {"id", "user_id", "context", "name", "params", "created_at"},
          constraints |-> {"saved_searches_pkey"}],
       [kind |-> "add_constraint", name |-> "fk_saved_searches_user_id",
          table |-> "saved_searches", columns |-> {"user_id"}, references
          |-> Some(<<"users", "id">>)],
       [kind |-> "add_constraint", name |->
          "uq_saved_search_user_context_name", table |-> "saved_searches",
          columns |-> {"user_id", "context", "name"}, references |-> None],
       [kind |-> "create_index", name |-> "ix_saved_searches_user_id", table
          |-> "saved_searches", column |-> "user_id"],
       [kind |-> "create_index", name |-> "ix_saved_searches_context", table
          |-> "saved_searches", column |-> "context"],
       [kind |-> "create_table", table |-> "import_batches", columns |->
          {"id", "kind", "filename", "payload", "created_at"}, constraints
          |-> {"import_batches_pkey"}],
       [kind |-> "add_column", table |-> "import_batches", column |->
          "kind"],
       [kind |-> "add_column", table |-> "import_batches", column |->
          "filename"],
       [kind |-> "add_column", table |-> "import_batches", column |->
          "payload"],
       [kind |-> "add_column", table |-> "import_batches", column |->
          "created_at"],
       [kind |-> "create_index", name |-> "ix_import_batches_kind", table
          |-> "import_batches", column |-> "kind"],
       [kind |-> "create_table", table |-> "purchase_orders", columns |->
          {"id", "supplier_name", "brand", "order_number", "order_date",
          "arrival_date", "currency", "freight_total", "allocation_method",
          "created_at"}, constraints |-> {"purchase_orders_pkey"}],
       [kind |-> "add_column", table |-> "purchase_orders", column |->
          "supplier_name"],
       [kind |-> "add_column", table |-> "purchase_orders", column |->
          "brand"],
       [kind |-> "add_column", table |-> "purchase_orders", column |->
          "order_number"],
       [kind |-> "add_column", table |-> "purchase_orders", column |->
          "order_date"],
       [kind |-> "add_column", table |-> "purchase_orders", column |->
          "arrival_date"],
       [kind |-> "add_column", table |-> "purchase_orders", column |->
          "currency"],
       [kind |-> "add_column", table |-> "purchase_orders", column |->
          "freight_total"],
       [kind |-> "add_column", table |-> "purchase_orders", column |->
          "allocation_method"],
       [kind |-> "add_column", table |-> "purchase_orders", column |->
          "created_at"],
       [kind |-> "create_index", name |-> "ix_purchase_orders_order_number",
          table |-> "purchase_orders", column |-> "order_number"],
       [kind |-> "create_table", table |-> "purchase_lines", columns |->
          {"id", "purchase_order_id", "item_id", "sku", "description",
          "colour", "size", "qty", "unit_cost_net", "packaging_per_unit",
          "freight_allocated_total", "freight_allocated_per_unit",
          "landed_unit_cost", "created_at"}, constraints |->
          {"purchase_lines_pkey"}],
       [kind |-> "add_column", table |-> "purchase_lines", column |->
          "purchase_order_id"],
       [kind |-> "add_column", table |-> "purchase_lines", column |->
          "item_id"],
       [kind |-> "add_column", table |-> "purchase_lines", column |->
          "sku"],
       [kind |-> "add_column", table |-> "purchase_lines", column |->
          "description"],
       [kind |-> "add_column", table |-> "purchase_lines", column |->
          "colour"],
       [kind |-> "add_column", table |-> "purchase_lines", column |->
          "size"],
       [kind |-> "add_column", table |-> "purchase_lines", column |->
          "qty"],
       [kind |-> "add_column", table |-> "purchase_lines", column |->
          "unit_cost_net"],
       [kind |-> "add_column", table |-> "purchase_lines", column |->
          "packaging_per_unit"],
       [kind |-> "add_column", table |-> "purchase_lines", column |->
          "freight_allocated_total"],
       [kind |-> "add_column", table |-> "purchase_lines", column |->
          "freight_allocated_per_unit"],
       [kind |-> "add_column", table |-> "purchase_lines", column |->
          "landed_unit_cost"],
       [kind |-> "add_column", table |-> "purchase_lines", column |->
          "created_at"],
       [kind |-> "add_constraint", name |-> "fk_purchase_lines_po", table
          |-> "purchase_lines", columns |-> {"purchase_order_id"},
          references |-> Some(<<"purchase_orders", "id">>)],
       [kind |-> "create_index", name |-> "ix_purchase_lines_sku", table |->
          "purchase_lines", column |-> "sku"],
       [kind |-> "create_index", name |->
          "ix_purchase_lines_purchase_order_id", table |-> "purchase_lines",
          column |-> "purchase_order_id"],
       [kind |-> "create_table", table |-> "sales_orders", columns |->
          {"id", "order_number", "order_date", "channel", "currency",
          "customer_name", "customer_email", "shipping_charged_gross",
          "order_discount_gross", "created_at"}, constraints |->
          {"sales_orders_pkey"}],
       [kind |-> "add_column", table |-> "sales_orders", column |->
          "order_number"],
       [kind |-> "add_column", table |-> "sales_orders", column |->
          "order_date"],
       [kind |-> "add_column", table |-> "sales_orders", column |->
          "channel"],
       [kind |-> "add_column", table |-> "sales_orders", column |->
          "currency"],
       [kind |-> "add_column", table |-> "sales_orders", column |->
          "customer_name"],
       [kind |-> "add_column", table |-> "sales_orders", column |->
          "customer_email"],
       [kind |-> "add_column", table |-> "sales_orders", column |->
          "shipping_charged_gross"],
       [kind |-> "add_column", table |-> "sales_orders", column |->
          "order_discount_gross"],
       [kind |-> "add_column", table |-> "sales_orders", column |->
          "created_at"],
       [kind |-> "create_index", name |-> "ix_sales_orders_order_date",
          table |-> "sales_orders", column |-> "order_date"],
       [kind |-> "create_index", name |-> "ix_sales_orders_channel", table
          |-> "sales_orders", column |-> "channel"],
       [kind |-> "add_constraint", name |->
          "uq_sales_orders_channel_order_number", table |-> "sales_orders",
          columns |-> {"channel", "order_number"}, references |-> None],
       [kind |-> "create_table", table |-> "sales_lines", columns |-> {"id",
          "sales_order_id", "item_id", "sku", "description", "qty",
          "unit_price_gross", "line_discount_gross",
          "order_discount_alloc_gross", "vat_rate", "unit_price_net",
          "revenue_net", "cost_method", "unit_cost_basis", "cost_total",
          "profit", "cost_source_po_id", "created_at"}, constraints |->
          {"sales_lines_pkey"}],
       [kind |-> "add_column", table |-> "sales_lines", column |->
          "sales_order_id"],
       [kind |-> "add_column", table |-> "sales_lines", column |->
          "item_id"],
       [kind |-> "add_column", table |-> "sales_lines", column |-> "sku"],
       [kind |-> "add_column", table |-> "sales_lines", column |->
          "description"],
       [kind |-> "add_column", table |-> "sales_lines", column |-> "qty"],
       [kind |-> "add_column", table |-> "sales_lines", column |->
          "unit_price_gross"],
       [kind |-> "add_column", table |-> "sales_lines", column |->
          "line_discount_gross"],
       [kind |-> "add_column", table |-> "sales_lines", column |->
          "order_discount_alloc_gross"],
       [kind |-> "add_column", table |-> "sales_lines", column |->
          "vat_rate"],
       [kind |-> "add_column", table |-> "sales_lines", column |->
          "unit_price_net"],
       [kind |-> "add_column", table |-> "sales_lines", column |->
          "revenue_net"],
       [kind |-> "add_column", table |-> "sales_lines", column |->
          "cost_method"],
       [kind |-> "add_column", table |-> "sales_lines", column |->
          "unit_cost_basis"],
       [kind |-> "add_column", table |-> "sales_lines", column |->
          "cost_total"],
       [kind |-> "add_column", table |-> "sales_lines", column |->
          "profit"],
       [kind |-> "add_column", table |-> "sales_lines", column |->
          "cost_source_po_id"],
       [kind |-> "add_column", table |-> "sales_lines", column |->
          "created_at"],
       [kind |-> "add_constraint", name |-> "fk_sales_lines_so", table |->
          "sales_lines", columns |-> {"sales_order_id"}, references |->
          Some(<<"sales_orders", "id">>)],
       [kind |-> "create_index", name |-> "ix_sales_lines_sku", table |->
          "sales_lines", column |-> "sku"],
       [kind |-> "create_index", name |-> "ix_sales_lines_sales_order_id",
          table |-> "sales_lines", column |-> "sales_order_id"],
       [kind |-> "create_index", name |-> "ix_sales_lines_item_id", table
          |-> "sales_lines", column |-> "item_id"],
       [kind |-> "create_table", table |-> "daily_metrics", columns |->
          {"id", "metric_date", "revenue_net", "cogs", "profit",
          "discount_net", "orders_count", "recomputed_at"}, constraints |->
          {"daily_metrics_pkey", "daily_metrics_metric_date_key"}],
       [kind |-> "create_table", table |-> "sku_metrics_daily", columns |->
          {"id", "metric_date", "sku", "units", "revenue_net", "profit",
          "disc_net", "recomputed_at"}, constraints |->
          {"sku_metrics_daily_pkey"}],
       [kind |-> "add_constraint", name |-> "uq_sku_metrics_daily_date_sku",
          table |-> "sku_metrics_daily", columns |-> {"metric_date", "sku"},
          references |-> None],
       [kind |-> "create_index", name |-> "ix_sku_metrics_daily_sku", table
          |-> "sku_metrics_daily", column |-> "sku"],
       [kind |-> "create_index", name |-> "ix_sku_metrics_daily_date", table
          |-> "sku_metrics_daily", column |-> "metric_date"] >>

\* an empty database
NoSchema == [tables |-> {}, columns |-> {}, constraints |-> {}, indexes |-> {}]

\* a faulty variant: the DO block adds its constraint without looking
ConstraintExists_Unguarded(sc, name) == FALSE

\* IF NOT EXISTS (SELECT 1 FROM pg_constraint WHERE conname = name): the
\* name is looked up whatever its table
ConstraintExists(sc, name) == \E c \in sc.constraints : c[1] = name

\* One statement against a schema: ok is FALSE when PostgreSQL raises.  A
\* constraint is added only when its DO block finds no constraint of its
\* name; adding it scans the rows, and data_ok says whether they satisfy it.
Exec(sc, s, data_ok) ==
    CASE s.kind = "create_table" ->
           IF s.table \in sc.tables THEN [ok |-> TRUE, schema |-> sc]
           ELSE [ok |-> TRUE,
                 schema |-> [sc EXCEPT
                    !.tables = @ \cup {s.table},
                    !.columns = @ \cup {<<s.table, c>> : c \in s.columns},
                    !.constraints = @ \cup {<<n, s.table>> : n \in s.constraints}]]
      [] s.kind = "add_column" ->
           IF s.table \notin sc.tables THEN [ok |-> FALSE, schema |-> sc]
           ELSE [ok |-> TRUE,
                 schema |-> [sc EXCEPT !.columns = @ \cup {<<s.table, s.column>>}]]
      [] s.kind = "add_constraint" ->
           IF ConstraintExists(sc, s.name)
           THEN [ok |-> TRUE, schema |-> sc]
           ELSE IF \/ s.table \notin sc.tables
                   \/ <<s.name, s.table>> \in sc.constraints
                   \/ \E c \in s.columns : <<s.table, c>> \notin sc.columns
                   \/ (~IsNone(s.references) /\ Val(s.references) \notin sc.columns)
                   \/ ~data_ok
           THEN [ok |-> FALSE, schema |-> sc]
           ELSE [ok |-> TRUE,
                 schema |-> [sc EXCEPT !.constraints = @ \cup {<<s.name, s.table>>}]]
      [] s.kind = "create_index" ->
           IF \E i \in sc.indexes : i[1] = s.name
           THEN [ok |-> TRUE, schema |-> sc]
           ELSE IF <<s.table, s.column>> \notin sc.columns
           THEN [ok |-> FALSE, schema |-> sc]
           ELSE [ok |-> TRUE,
                 schema |-> [sc EXCEPT !.indexes = @ \cup {<<s.name, s.table>>}]]

RECURSIVE RunRange(_, _, _, _)
\* the statements lo..hi of the patch in order, from the state st of the
\* run, until one raises; executed counts the statements that were sent.
\* The range is halved so that a long patch is evaluated at a small depth.
RunRange(st, lo, hi, data_ok) ==
    IF ~st.ok \/ lo > hi THEN st
    ELSE IF lo = hi
    THEN LET r == Exec(st.schema, _db_patch_statements[lo], data_ok)
         IN  [ok |-> r.ok, schema |-> r.schema, executed |-> st.executed + 1]
    ELSE LET mid == (lo + hi) \div 2
         IN  RunRange(RunRange(st, lo, mid, data_ok), mid + 1, hi, data_ok)

\* the loop of db_patch_run over a schema
RunPatch(sc, data_ok) ==
    RunRange([ok |-> TRUE, schema |-> sc, executed |-> 0],
             1, Len(_db_patch_statements), data_ok)

\* a faulty variant: the executor is gated on a non-empty setting
require_db_patch_enabled_NonEmpty ==
    IF config.ALLOW_DB_PATCH = "" THEN 404 ELSE 0

\* the status _require_db_patch_enabled aborts with, or 0
_require_db_patch_enabled ==
    IF config.ALLOW_DB_PATCH # "1" THEN 404 ELSE 0

\* GET /admin/db-patch
db_patch_home ==
    /\ _require_db_patch_enabled = 0
    /\ last' = [op |-> "admin.db_patch_home", status |-> 200]
    /\ UNCHANGED <<appvars, today, items, purchase_orders, purchase_lines,
                   import_batches, sales_orders, sales_lines, daily_metrics,
                   sku_metrics_daily>>

\* POST /admin/db-patch: the statements run in one transaction, rolled back
\* when one raises
db_patch_run(data_ok) ==
    /\ _require_db_patch_enabled = 0
    /\ LET r == RunPatch(schema, data_ok)
       IN  /\ schema' = IF r.ok THEN r.schema ELSE schema
           /\ last' = [op |-> "admin.db_patch_run", status |-> 200,
                       error |-> ~r.ok, executed |-> r.executed]
    /\ UNCHANGED <<users, saved_searches, current_user, config, store, now, today,
                   items, purchase_orders, purchase_lines, import_batches,
                   sales_orders, sales_lines, daily_metrics, sku_metrics_daily>>

----------------------------------------------------------------------------
(* utils/cache.py and search/routes.py                                     *)

TtlSeconds == 2     \* TTLCache(ttl_seconds=...)
MaxItems == 2       \* TTLCache(max_items=...)

\* _store is a dict: its entries are kept in insertion order, each key once
Keys(st) == {st[i].key : i \in 1..Len(st)}
Entry(st, key) == st[CHOOSE i \in 1..Len(st) : st[i].key = key]

RECURSIVE Pop(_, _)
\* _store.pop(key, None)
Pop(st, key) ==
    IF st = << >> THEN << >>
    ELSE IF Head(st).key = key THEN Tail(st)
    ELSE <<Head(st)>> \o Pop(Tail(st), key)

RECURSIVE TTLCache_prune(_, _)
\* TTLCache.prune at clock reading t: every entry with expires_at < t goes
TTLCache_prune(st, t) ==
    IF st = << >> THEN << >>
    ELSE IF Head(st).expires_at < t THEN TTLCache_prune(Tail(st), t)
    ELSE <<Head(st)>> \o TTLCache_prune(Tail(st), t)

\* _store[key] = (expires_at, val): a key already stored keeps its place
Put(st, key, expires_at, val) ==
    IF key \in Keys(st)
    THEN [i \in 1..Len(st) |->
            IF st[i].key = key
            THEN [key |-> key, expires_at |-> expires_at, val |-> val]
            ELSE st[i]]
    ELSE Append(st, [key |-> key, expires_at |-> expires_at, val |-> val])

\* a faulty variant: a full cache is pruned but nothing further is evicted
TTLCache_set_NoEvict(st, t, key, val) ==
    LET room == IF Len(st) >= MaxItems THEN TTLCache_prune(st, t) ELSE st
    IN  Put(room, key, t + TtlSeconds, val)

\* TTLCache.set at clock reading t; next(iter(_store.keys())) is the first
\* key in insertion order
TTLCache_set(st, t, key, val) ==
    LET room == IF Len(st) >= MaxItems
                THEN LET pruned == TTLCache_prune(st, t)
                     IN  IF Len(pruned) >= MaxItems THEN Tail(pruned) ELSE pruned
                ELSE st
    IN  Put(room, key, t + TtlSeconds, val)

\* a faulty variant: an entry is served until one second past its expiry
TTLCache_get_Late(st, t, key) ==
    IF key \notin Keys(st) THEN [ret |-> None, store |-> st]
    ELSE IF Entry(st, key).expires_at < t - 1
    THEN [ret |-> None, store |-> Pop(st, key)]
    ELSE [ret |-> Some(Entry(st, key).val), store |-> st]

\* TTLCache.get at clock reading t: the value returned (None for a miss) and
\* the store afterwards
TTLCache_get(st, t, key) ==
    IF key \notin Keys(st) THEN [ret |-> None, store |-> st]
    ELSE IF Entry(st, key).expires_at < t
    THEN [ret |-> None, store |-> Pop(st, key)]
    ELSE [ret |-> Some(Entry(st, key).val), store |-> st]

\* TTLCache.get_or_set: fn() answers val, and dt seconds pass between the
\* clock reading of get and the clock reading of set
TTLCache_get_or_set(st, t, key, val, dt) ==
    LET g == TTLCache_get(st, t, key)
    IN  IF ~IsNone(g.ret) THEN [ret |-> Val(g.ret), store |-> g.store, built |-> FALSE]
        ELSE [ret |-> val, store |-> TTLCache_set(g.store, t + dt, key, val), built |-> TRUE]

\* the rest of the state is untouched by the cache
NoDb ==
    UNCHANGED <<users, saved_searches, current_user, config, schema, today, items,
                purchase_orders, purchase_lines, import_batches, sales_orders,
                sales_lines, daily_metrics, sku_metrics_daily>>

cache_get(key) ==
    /\ store' = TTLCache_get(store, now, key).store
    /\ last' = [op |-> "cache.get", key |-> key, ret |-> TTLCache_get(store, now, key).ret]
    /\ UNCHANGED now
    /\ NoDb

cache_set(key, val) ==
    /\ store' = TTLCache_set(store, now, key, val)
    /\ last' = [op |-> "cache.set", key |-> key, val |-> val, held |-> Len(store)]
    /\ UNCHANGED now
    /\ NoDb

cache_prune ==
    /\ store' = TTLCache_prune(store, now)
    /\ last' = [op |-> "cache.prune"]
    /\ UNCHANGED now
    /\ NoDb

\* len(q) < 2
ShortQueries == {"", "a"}

\* GET /search/api/search: a query shorter than two characters is answered
\* without the cache; results is what run_global_search answers now
api_search(q, results, dt) ==
    LET query == Strip(q)
        role  == Getattr(load_user.role, "viewer")
        key   == <<role, Lower(query)>>
        r     == TTLCache_get_or_set(store, now, key, results, dt)
    IN  /\ IF query \in ShortQueries
           THEN /\ UNCHANGED <<store, now>>
                /\ last' = [op |-> "search.api_search", q |-> query, cached |-> FALSE,
                            results |-> "empty"]
           ELSE /\ store' = r.store
                /\ now' = IF r.built THEN now + dt ELSE now
                /\ last' = [op |-> "search.api_search", q |-> query,
                            cached |-> ~r.built, results |-> r.ret]
        /\ NoDb

\* the clock moves on
Tick ==
    /\ now' = now + 1
    /\ last' = [op |-> "tick"]
    /\ UNCHANGED store
    /\ NoDb

----------------------------------------------------------------------------
(* The application after create_app()                                      *)

\* Config: ALLOW_DB_PATCH is "0" unless the environment sets it; no login
\* view is assumed
Config == [ALLOW_DB_PATCH |-> "0", login_view |-> None]

InitApp ==
    /\ users = << >>
    /\ saved_searches = << >>
    /\ current_user = None
    /\ config = Config
    /\ schema = create_all
    /\ store = << >>
    /\ now = 0

----------------------------------------------------------------------------
(* Purchase orders: import commit and cost edits                           *)

\* lines of a purchase import payload (qty > 0 as import_parse checked;
\* a net unit cost may be zero or negative, it is only parsed)
PurchLineInputs ==
    { [sku |-> "A", qty |-> 1, unit_cost_net |-> 1000, packaging_per_unit |-> 0],
      [sku |-> "A", qty |-> 2, unit_cost_net |-> 1000, packaging_per_unit |-> 50],
      [sku |-> "B", qty |-> 3, unit_cost_net |-> 333,  packaging_per_unit |-> 0],
      [sku |-> "A", qty |-> 1, unit_cost_net |-> -1,   packaging_per_unit |-> 0],
      [sku |-> "B", qty |-> 199, unit_cost_net |-> 1,  packaging_per_unit |-> 0] }

\* freight totals of a payload: blank, -0.01, 0.014 (stored as 0.01), 1.00
PurchFreightInputs == {None, Some(-100), Some(140), Some(10000)}

\* freight totals PurchaseCostsForm accepts: Optional, NumberRange(min=0)
FormFreightInputs == {None, Some(0), Some(100)}

PurchOrderInputs ==
    { [order_number |-> "PO1", order_date |-> None, arrival_date |-> None,
       freight_total |-> f, allocation_method |-> m, lines |-> ls] :
         f \in PurchFreightInputs, m \in {"value", "qty", ""},
         ls \in SeqsOf(PurchLineInputs, 1, MaxLines) }

InitPO ==
    /\ InitApp
    /\ today = 1
    /\ items = ("A" :> NewItemVat)
    /\ purchase_orders = << >>
    /\ purchase_lines = << >>
    /\ \E o \in PurchOrderInputs :
          import_batches = << [kind |-> "purchase_import", orders |-> <<o>>] >>
    /\ sales_orders = << >>
    /\ sales_lines = << >>
    /\ daily_metrics = << >>
    /\ sku_metrics_daily = << >>
    /\ last = [op |-> "init"]

NextPO ==
    \/ \E b \in 1..Len(import_batches), cm \in BOOLEAN :
          purchases_import_commit(b, cm)
    \/ \E p \in 1..Len(purchase_orders), f \in FormFreightInputs,
          m \in {"value", "qty"} :
          edit_costs(p, f, m)

SpecPO == InitPO /\ [][NextPO]_vars

----------------------------------------------------------------------------
(* Claims about freight allocation                                         *)

\* the freight total _recalc_allocations reads for a line's order
FreightOf(ln) == OrZero(purchase_orders[ln.purchase_order_id].freight_total)

\* base_i as the claim states it: qty for 'qty', unit_cost_net * qty otherwise
ClaimBase(ln) ==
    IF purchase_orders[ln.purchase_order_id].allocation_method = "qty"
    THEN ln.qty ELSE ln.unit_cost_net * ln.qty

\* sum(base) over the lines of the same order
ClaimBaseTotal(ln) ==
    SumSeq([k \in 1..Len(purchase_lines) |->
              IF purchase_lines[k].purchase_order_id = ln.purchase_order_id
              THEN ClaimBase(purchase_lines[k]) ELSE 0])

PLineSet == {purchase_lines[i] : i \in 1..Len(purchase_lines)}

\* C1 as stated: with freight_total > 0 every line's freight_allocated_total
\* is exactly freight_total * base_i / sum(base).
C1_Original ==
    \A ln \in PLineSet :
        (FreightOf(ln) > 0 /\ ClaimBaseTotal(ln) # 0) =>
            Val(ln.freight_allocated_total) * ClaimBaseTotal(ln)
                = FreightOf(ln) * ClaimBase(ln)

\* C1 (amended): with freight_total > 0 every line's freight_allocated_total
\* is freight_total * base_i / sum(base) rounded to the 4 decimals of its
\* column (within half a tick of the exact share) when sum(base) > 0, and 0
\* when sum(base) <= 0; base_i is qty for 'qty' and unit_cost_net * qty for
\* any other method.
C1_Proportional ==
    \A ln \in PLineSet :
        FreightOf(ln) > 0 =>
            IF ClaimBaseTotal(ln) > 0
            THEN 2 * Abs(Val(ln.freight_allocated_total) * ClaimBaseTotal(ln)
                         - FreightOf(ln) * ClaimBase(ln)) <= ClaimBaseTotal(ln)
            ELSE Val(ln.freight_allocated_total) = 0

\* C1 witness: an order with freight by value whose two lines got different,
\* non-zero shares, one of them rounded.
C1_Witness ==
    \E ln \in PLineSet, l2 \in PLineSet :
        /\ ln.purchase_order_id = l2.purchase_order_id
        /\ FreightOf(ln) > 0
        /\ purchase_orders[ln.purchase_order_id].allocation_method = "value"
        /\ Val(ln.freight_allocated_total) > Val(l2.freight_allocated_total)
        /\ Val(l2.freight_allocated_total) > 0
        /\ Val(ln.freight_allocated_total) * ClaimBaseTotal(ln)
               # FreightOf(ln) * ClaimBase(ln)


\* a line on which _recalc_allocations has run
Recalculated(ln) ==
    /\ ~IsNone(ln.freight_allocated_total)
    /\ ~IsNone(ln.freight_allocated_per_unit)
    /\ ~IsNone(ln.landed_unit_cost)

\* landed_unit_cost = unit_cost_net + freight_allocated_per_unit + packaging
LandedIsSum(ln) ==
    Val(ln.landed_unit_cost) =
        ln.unit_cost_net + Val(ln.freight_allocated_per_unit)
            + OrZero(ln.packaging_per_unit)

\* both freight fields are 0 when freight_total is missing or <= 0
NoFreightIsZero(ln) ==
    FreightOf(ln) <= 0 =>
        /\ Val(ln.freight_allocated_total) = 0
        /\ Val(ln.freight_allocated_per_unit) = 0

----------------------------------------------------------------------------
(* Costing of a sale against a purchase history                            *)

MaxHist == 3        \* purchase orders in the history

\* the dates of a purchase order: (arrival_date, order_date, created_at)
HistDates == { <<None, None, 2>>, <<None, Some(1), 3>>, <<Some(3), Some(1), 1>> }

\* a purchase order with one line, without freight
HistInputs ==
    { [dates |-> d, sku |-> l[1], qty |-> l[2], cost |-> l[3]] :
        d \in HistDates, l \in {<<"A", 1, 100>>, <<"A", 2, 250>>, <<"B", 1, 100>>} }

HistPO(h) ==
    [order_number |-> "PO", order_date |-> h.dates[2], arrival_date |-> h.dates[1],
     created_at |-> h.dates[3], freight_total |-> None,
     allocation_method |-> "value"]

HistLine(h, po_id) ==
    [purchase_order_id |-> po_id, sku |-> h.sku, qty |-> h.qty,
     unit_cost_net |-> h.cost, packaging_per_unit |-> Some(0),
     freight_allocated_total |-> Some(0), freight_allocated_per_unit |-> Some(0),
     landed_unit_cost |-> Some(h.cost)]

SaleDates == 0..3
CostMethods == {"weighted_avg", "last"}

InitCost ==
    /\ InitApp
    /\ today = 3
    /\ items = ("A" :> NewItemVat) @@ ("B" :> NewItemVat)
    /\ \E hs \in SeqsOf(HistInputs, 1, MaxHist) :
          /\ purchase_orders = [k \in 1..Len(hs) |-> HistPO(hs[k])]
          /\ purchase_lines = [k \in 1..Len(hs) |-> HistLine(hs[k], k)]
    /\ import_batches = << >>
    /\ sales_orders = << >>
    /\ sales_lines = << >>
    /\ daily_metrics = << >>
    /\ sku_metrics_daily = << >>
    /\ last = [op |-> "init"]

\* a call of _compute_unit_cost_basis
compute_unit_cost_basis_call(sku, sale_date, method) ==
    /\ last' = [op |-> "_compute_unit_cost_basis", sku |-> sku,
                sale_date |-> sale_date, method |-> method,
                ret |-> _compute_unit_cost_basis(purchase_orders, purchase_lines,
                                                 sku, sale_date, method)]
    /\ UNCHANGED <<appvars, today, items, purchase_orders, purchase_lines, import_batches,
                   sales_orders, sales_lines, daily_metrics, sku_metrics_daily>>

NextCost ==
    \E sku \in {"A", "B"}, d \in SaleDates, m \in CostMethods :
        compute_unit_cost_basis_call(sku, d, m)

SpecCost == InitCost /\ [][NextCost]_vars

----------------------------------------------------------------------------
(* Claims about costing                                                    *)

\* the effective date of a purchase line as the claims state it
ClaimEff(ln) ==
    LET po == purchase_orders[ln.purchase_order_id]
    IN  IF po.arrival_date # None THEN po.arrival_date[1]
        ELSE IF po.order_date # None THEN po.order_date[1]
        ELSE po.created_at

\* the purchase lines (row ids) of a SKU with qty > 0
ClaimLines(sku) ==
    {i \in 1..Len(purchase_lines) :
        purchase_lines[i].sku = sku /\ purchase_lines[i].qty > 0}

\* those with an effective date on or before the sale date
ClaimOnOrBefore(sku, d) ==
    {i \in ClaimLines(sku) : ClaimEff(purchase_lines[i]) <= d}

CostCall == last.op = "_compute_unit_cost_basis"

\* C3: with method 'weighted_avg' and at least one purchase line of the SKU
\* (qty > 0) effective on or before the sale date, the unit cost returned is
\* sum(qty * landed cost) / sum(qty) over exactly those lines, and no source
\* purchase order id is returned.
C3_WeightedAvg ==
    (CostCall /\ last.method = "weighted_avg"
        /\ ClaimOnOrBefore(last.sku, last.sale_date) # {}) =>
        LET S    == ClaimOnOrBefore(last.sku, last.sale_date)
            cost == SumOver(S, [i \in S |-> purchase_lines[i].qty
                                   * Val(purchase_lines[i].landed_unit_cost)])
            qty  == SumOver(S, [i \in S |-> purchase_lines[i].qty])
        IN  /\ last.ret.unit_cost_basis[1] * qty = cost * last.ret.unit_cost_basis[2]
            /\ last.ret.cost_source_po_id = None

\* C3 witness: a weighted average over two lines of different cost on or
\* before the sale date, with a third line of the SKU after it left out.
C3_Witness ==
    /\ CostCall /\ last.method = "weighted_avg"
    /\ \E i, j \in ClaimOnOrBefore(last.sku, last.sale_date) :
          purchase_lines[i].landed_unit_cost # purchase_lines[j].landed_unit_cost
    /\ ClaimLines(last.sku) # ClaimOnOrBefore(last.sku, last.sale_date)
    /\ last.ret.unit_cost_basis = <<600, 3>>

\* C4: with method 'last' and at least one purchase line of the SKU (qty > 0)
\* effective on or before the sale date, the unit cost returned is the landed
\* cost of such a line with the greatest effective date, and the source id is
\* that line's purchase order; no later line is used.
C4_LastCost ==
    (CostCall /\ last.method = "last"
        /\ ClaimOnOrBefore(last.sku, last.sale_date) # {}) =>
        \E i \in ClaimOnOrBefore(last.sku, last.sale_date) :
            /\ \A j \in ClaimOnOrBefore(last.sku, last.sale_date) :
                  ClaimEff(purchase_lines[j]) <= ClaimEff(purchase_lines[i])
            /\ last.ret.unit_cost_basis = <<Val(purchase_lines[i].landed_unit_cost), 1>>
            /\ last.ret.cost_source_po_id = Some(purchase_lines[i].purchase_order_id)

\* C4 witness: a 'last' costing with an older and a newer line on or before
\* the sale date, of different costs.
C4_Witness ==
    /\ CostCall /\ last.method = "last"
    /\ \E i, j \in ClaimOnOrBefore(last.sku, last.sale_date) :
          /\ ClaimEff(purchase_lines[i]) < ClaimEff(purchase_lines[j])
          /\ purchase_lines[i].landed_unit_cost # purchase_lines[j].landed_unit_cost
          /\ last.ret.cost_source_po_id = Some(purchase_lines[j].purchase_order_id)

\* C5 as stated: when the SKU has purchase lines but none effective on or
\* before the sale date, the unit cost returned is the landed cost of the
\* purchase line with the greatest effective date, for both methods.
C5_FallbackLatest ==
    (CostCall /\ ClaimLines(last.sku) # {}
        /\ ClaimOnOrBefore(last.sku, last.sale_date) = {}) =>
        \E i \in ClaimLines(last.sku) :
            /\ \A j \in ClaimLines(last.sku) :
                  ClaimEff(purchase_lines[j]) <= ClaimEff(purchase_lines[i])
            /\ last.ret.unit_cost_basis[1]
                  = Val(purchase_lines[i].landed_unit_cost) * last.ret.unit_cost_basis[2]


----------------------------------------------------------------------------
(* VAT back-out of a gross amount                                          *)

MaxGrossCents == 30     \* gross amounts 0.00 .. 0.30

\* gross amounts, in ticks
GrossInputs == {100 * c : c \in 0..MaxGrossCents}

\* vat rates in percent: missing, 0, 5, 18, and two with 1 + vat/100 <= 0
VatInputs == {None, Some(0), Some(5), Some(18), Some(-100), Some(-150)}

InitVat ==
    /\ InitApp
    /\ today = 1
    /\ items = << >>
    /\ purchase_orders = << >>
    /\ purchase_lines = << >>
    /\ import_batches = << >>
    /\ sales_orders = << >>
    /\ sales_lines = << >>
    /\ daily_metrics = << >>
    /\ sku_metrics_daily = << >>
    /\ last = [op |-> "init"]

\* a call of _gross_to_net; ret is the Decimal returned
gross_to_net_call(gross, vat_rate) ==
    /\ last' = [op |-> "_gross_to_net", gross |-> gross, vat_rate |-> vat_rate,
                ret |-> DecimalOf(_gross_to_net(<<gross, 1>>, vat_rate))]
    /\ UNCHANGED <<appvars, today, items, purchase_orders, purchase_lines, import_batches,
                   sales_orders, sales_lines, daily_metrics, sku_metrics_daily>>

NextVat == \E g \in GrossInputs, v \in VatInputs : gross_to_net_call(g, v)

SpecVat == InitVat /\ [][NextVat]_vars

----------------------------------------------------------------------------
(* Claims about the VAT back-out                                           *)

VatCall == last.op = "_gross_to_net"

\* the vat rate of the call, a missing one counted as 18
ClaimVat == IF last.vat_rate = None THEN 18 ELSE last.vat_rate[1]

\* C7 as stated: net * (100 + vat) = gross * 100, a missing vat rate counting
\* as 18; when 1 + vat/100 <= 0 the gross amount is returned unchanged.
C7_Original ==
    VatCall =>
        IF 100 + ClaimVat <= 0
        THEN last.ret[1] = last.gross * Pow10(last.ret[2])
        ELSE last.ret[1] * (100 + ClaimVat) = last.gross * 100 * Pow10(last.ret[2])

\* C7 (amended): _gross_to_net returns gross / (1 + vat/100) rounded to the
\* precision of the Decimal context, so net * (100 + vat) equals gross * 100
\* only up to half a unit in the last place of net times (100 + vat); a
\* missing vat rate is treated as 18; when 1 + vat/100 <= 0 the gross amount
\* is returned unchanged.
C7_VatBackOut ==
    VatCall =>
        IF 100 + ClaimVat <= 0
        THEN last.ret[1] = last.gross * Pow10(last.ret[2])
        ELSE /\ 2 * Abs(last.ret[1] * (100 + ClaimVat)
                        - last.gross * 100 * Pow10(last.ret[2])) <= 100 + ClaimVat
             /\ last.ret[1] <= Pow10(DecimalPrec)

\* C7 witness: a missing vat rate on a gross amount whose net is not a
\* finite decimal.
C7_Witness ==
    /\ VatCall /\ last.vat_rate = None /\ last.gross = 300
    /\ last.ret[1] * 118 # last.gross * 100 * Pow10(last.ret[2])

----------------------------------------------------------------------------
(* Sales orders: import commit                                             *)

MaxSalesLines == 3      \* lines of a drawn payload order

\* payload lines: a plain line, a line with a line discount on an item whose
\* stored vat_rate is 0, and a line of an unknown SKU whose line discount
\* exceeds its gross
SalesLineInputs ==
    { [sku |-> "A", qty |-> 1, unit_price_gross |-> 100, line_discount_gross |-> 0],
      [sku |-> "Z", qty |-> 2, unit_price_gross |-> 150, line_discount_gross |-> 30],
      [sku |-> "B", qty |-> 1, unit_price_gross |-> 100, line_discount_gross |-> 130] }

SalesDiscountInputs == {None, Some(-100), Some(200)}

SalesOrderInputs ==
    { [order_number |-> "S1", channel |-> c, order_date |-> d,
       order_discount_gross |-> disc, lines |-> ls] :
        c \in {"web", "shop"}, d \in {1, 2}, disc \in SalesDiscountInputs,
        ls \in SeqsOf(SalesLineInputs, 1, MaxSalesLines) }

\* a later upload that repeats order S1 of channel web with other content
\* and adds order S2
SecondUpload ==
    << [order_number |-> "S1", channel |-> "web", order_date |-> 2,
        order_discount_gross |-> Some(100),
        lines |-> << [sku |-> "A", qty |-> 2, unit_price_gross |-> 150,
                      line_discount_gross |-> 0],
                     [sku |-> "B", qty |-> 1, unit_price_gross |-> 100,
                      line_discount_gross |-> 0] >>],
       [order_number |-> "S2", channel |-> "web", order_date |-> 1,
        order_discount_gross |-> None,
        lines |-> << [sku |-> "A", qty |-> 1, unit_price_gross |-> 100,
                      line_discount_gross |-> 0] >>] >>

\* the purchases behind the cost basis: SKU A bought on day 1 and on day 2,
\* at costs whose weighted average, 242 / 3 ticks, is no whole tick
SalesHist ==
    << [dates |-> <<None, Some(1), 1>>, sku |-> "A", qty |-> 1, cost |-> 60],
       [dates |-> <<None, Some(2), 2>>, sku |-> "A", qty |-> 2, cost |-> 91] >>

InitSales ==
    /\ InitApp
    /\ today = 3
    /\ items = ("A" :> NewItemVat) @@ ("Z" :> 0)
    /\ purchase_orders = [k \in 1..Len(SalesHist) |-> HistPO(SalesHist[k])]
    /\ purchase_lines = [k \in 1..Len(SalesHist) |-> HistLine(SalesHist[k], k)]
    /\ \E o \in SalesOrderInputs :
          import_batches = << [kind |-> "sales_import", orders |-> <<o>>],
                              [kind |-> "sales_import", orders |-> SecondUpload] >>
    /\ sales_orders = << >>
    /\ sales_lines = << >>
    /\ daily_metrics = << >>
    /\ sku_metrics_daily = << >>
    /\ last = [op |-> "init"]

NextSales ==
    \E b \in 1..2, cm \in BOOLEAN, m \in {"", "last"} :
        sales_import_commit(b, cm, m)

SpecSales == InitSales /\ [][NextSales]_vars

----------------------------------------------------------------------------
(* Claims about the sales import commit                                    *)

CommitCall == last.op = "sales.import_commit"

\* the orders the last commit created: <<sales order id, payload order>>
CreatedBy ==
    IF CommitCall
    THEN { <<last.created[i].so_id,
             import_batches[last.batch_id].orders[last.created[i].order]>> :
             i \in 1..Len(last.created) }
    ELSE {}

SLinesOf(so_id) ==
    {i \in 1..Len(sales_lines) : sales_lines[i].sales_order_id = so_id}

ClaimLineBase(l) ==
    LET g == l.unit_price_gross * l.qty - OrZero(l.line_discount_gross)
    IN  IF g < 0 THEN 0 ELSE g

ClaimSumBase(L) == SumOver(L, [i \in L |-> ClaimLineBase(sales_lines[i])])
ClaimSumAlloc(L) ==
    SumOver(L, [i \in L |-> OrZero(sales_lines[i].order_discount_alloc_gross)])

\* C6 as stated: when the order discount D and the sum of the line bases are
\* > 0, every line's allocated order discount is exactly D * base_i / sum(base)
\* and the allocations sum to D; otherwise every allocation is 0.
C6_Original ==
    \A c \in CreatedBy :
        LET D == OrZero(c[2].order_discount_gross)
            L == SLinesOf(c[1])
            T == ClaimSumBase(L)
        IN  IF D > 0 /\ T > 0
            THEN /\ \A i \in L :
                       OrZero(sales_lines[i].order_discount_alloc_gross) * T
                           = D * ClaimLineBase(sales_lines[i])
                 /\ ClaimSumAlloc(L) = D
            ELSE \A i \in L : OrZero(sales_lines[i].order_discount_alloc_gross) = 0

\* C6: when the order discount D and the sum of the line bases are > 0,
\* every stored allocation is D * base_i / sum(base) to within half a tick,
\* so the allocations sum to D to within half a tick per line; otherwise
\* every allocation is 0.
C6_Prorated ==
    \A c \in CreatedBy :
        LET D == OrZero(c[2].order_discount_gross)
            L == SLinesOf(c[1])
            T == ClaimSumBase(L)
        IN  IF D > 0 /\ T > 0
            THEN /\ \A i \in L :
                       2 * Abs(OrZero(sales_lines[i].order_discount_alloc_gross) * T
                                 - D * ClaimLineBase(sales_lines[i])) <= T
                 /\ 2 * Abs(ClaimSumAlloc(L) - D) <= Cardinality(L)
            ELSE \A i \in L : OrZero(sales_lines[i].order_discount_alloc_gross) = 0

\* a commit has stored an order of three lines whose allocations do not add
\* up to its order discount
C6_Witness ==
    \E c \in CreatedBy :
        /\ OrZero(c[2].order_discount_gross) > 0
        /\ Cardinality(SLinesOf(c[1])) = 3
        /\ ClaimSumBase(SLinesOf(c[1])) > 0
        /\ ClaimSumAlloc(SLinesOf(c[1])) # OrZero(c[2].order_discount_gross)

NoDupOrders ==
    \A i, j \in 1..Len(sales_orders) :
        (sales_orders[i].channel = sales_orders[j].channel
         /\ sales_orders[i].order_number = sales_orders[j].order_number) => i = j

\* after a commit every order of the committed batch is stored
CommittedExist ==
    CommitCall =>
        \A k \in 1..Len(import_batches[last.batch_id].orders) :
            Existing(sales_orders, import_batches[last.batch_id].orders[k].channel,
                     import_batches[last.batch_id].orders[k].order_number)

\* a commit step keeps every stored order and line, and creates only orders
\* whose (channel, order_number) was not stored
CommitKeeps ==
    last'.op = "sales.import_commit" =>
        /\ Len(sales_orders') >= Len(sales_orders)
        /\ Len(sales_lines') >= Len(sales_lines)
        /\ \A i \in 1..Len(sales_orders) : sales_orders'[i] = sales_orders[i]
        /\ \A i \in 1..Len(sales_lines) : sales_lines'[i] = sales_lines[i]
        /\ \A i \in (Len(sales_orders) + 1)..Len(sales_orders') :
               ~Existing(sales_orders, sales_orders'[i].channel,
                         sales_orders'[i].order_number)

\* a commit of a batch whose orders are all stored creates nothing
CommitAgain ==
    (/\ last'.op = "sales.import_commit"
     /\ \A k \in 1..Len(import_batches[last'.batch_id].orders) :
            Existing(sales_orders, import_batches[last'.batch_id].orders[k].channel,
                     import_batches[last'.batch_id].orders[k].order_number))
    => /\ sales_orders' = sales_orders
       /\ sales_lines' = sales_lines
       /\ items' = items

\* C9: a sales import commit skips the payload orders whose (channel,
\* order_number) is stored and alters no stored order or line; a batch
\* committed before is stored in full, so committing it again creates no
\* order, line or item; no two sales orders ever share (channel, order_number).
C9_Idempotent ==
    /\ [](NoDupOrders /\ CommittedExist)
    /\ [][CommitKeeps /\ CommitAgain]_vars

\* a commit that found every order of its batch stored, lines among them
C9_Witness ==
    /\ CommitCall
    /\ last.created = << >>
    /\ last.skipped_existing = Len(import_batches[last.batch_id].orders)
    /\ sales_lines # << >>

----------------------------------------------------------------------------
(* Metrics over imported sales                                             *)

MaxMetricLines == 2     \* lines of the drawn payload order

MetricLineInputs ==
    { [sku |-> "A", qty |-> 1, unit_price_gross |-> 100, line_discount_gross |-> 0],
      [sku |-> "B", qty |-> 2, unit_price_gross |-> 150, line_discount_gross |-> 30] }

MetricOrderInputs ==
    { [order_number |-> "S1", channel |-> "shop", order_date |-> d,
       order_discount_gross |-> Some(200), lines |-> ls] :
        d \in {1, 2}, ls \in SeqsOf(MetricLineInputs, 1, MaxMetricLines) }

MetricDates == {None, Some(1), Some(2)}

InitMetrics ==
    /\ InitApp
    /\ today = 3
    /\ items = ("A" :> NewItemVat)
    /\ purchase_orders = [k \in 1..Len(SalesHist) |-> HistPO(SalesHist[k])]
    /\ purchase_lines = [k \in 1..Len(SalesHist) |-> HistLine(SalesHist[k], k)]
    /\ \E o \in MetricOrderInputs :
          import_batches = << [kind |-> "sales_import", orders |-> <<o>>],
                              [kind |-> "sales_import", orders |-> SecondUpload] >>
    /\ sales_orders = << >>
    /\ sales_lines = << >>
    /\ daily_metrics = << >>
    /\ sku_metrics_daily = << >>
    /\ last = [op |-> "init"]

NextMetrics ==
    \/ \E b \in 1..2, cm \in BOOLEAN : sales_import_commit(b, cm, "last")
    \/ \E f \in MetricDates, t \in MetricDates, err \in BOOLEAN :
           metrics_recompute(f, t, err)

SpecMetrics == InitMetrics /\ [][NextMetrics]_vars

----------------------------------------------------------------------------
(* Claims about the metrics rebuild                                        *)

RecomputeOk == last.op = "admin.metrics_recompute" /\ last.ok

\* the dates the last successful recompute covered
RecomputedDates == IF RecomputeOk THEN Val(last.d_from)..Val(last.d_to) ELSE {}

\* the sales lines of the orders dated d, and those orders
ClaimLinesOn(d) ==
    {i \in 1..Len(sales_lines) : sales_orders[sales_lines[i].sales_order_id].order_date = d}
ClaimOrdersOn(d) ==
    {o \in 1..Len(sales_orders) :
        /\ sales_orders[o].order_date = d
        /\ \E i \in 1..Len(sales_lines) : sales_lines[i].sales_order_id = o}
ClaimSkus == {sales_lines[i].sku : i \in 1..Len(sales_lines)} \cup {"A", "B", "Z"}

DailyRowsOn(d) == {k \in 1..Len(daily_metrics) : daily_metrics[k].metric_date = d}
SkuRowsOn(d, sku) ==
    {k \in 1..Len(sku_metrics_daily) :
        sku_metrics_daily[k].metric_date = d /\ sku_metrics_daily[k].sku = sku}

\* C8: after a successful metrics_recompute over [d_from, d_to], for every
\* date d of the range there is a daily_metrics row iff some sales line
\* belongs to an order dated d, never two, and the row holds the number of
\* those orders and the sums of qty, revenue_net, cost_total and profit over
\* their lines; there is exactly one sku_metrics_daily row for each (d, sku)
\* sold, with the sums over that SKU's lines, and none for a (d, sku) not sold.
C8_Rebuild ==
    \A d \in RecomputedDates :
        LET L == ClaimLinesOn(d)
        IN  /\ (DailyRowsOn(d) # {}) <=> (L # {})
            /\ Cardinality(DailyRowsOn(d)) <= 1
            /\ \A k \in DailyRowsOn(d) :
                  /\ daily_metrics[k].orders_count = Cardinality(ClaimOrdersOn(d))
                  /\ daily_metrics[k].units = SumOver(L, [i \in L |-> sales_lines[i].qty])
                  /\ daily_metrics[k].revenue_net
                        = SumOver(L, [i \in L |-> sales_lines[i].revenue_net])
                  /\ daily_metrics[k].cogs
                        = SumOver(L, [i \in L |-> sales_lines[i].cost_total])
                  /\ daily_metrics[k].profit
                        = SumOver(L, [i \in L |-> sales_lines[i].profit])
            /\ \A sku \in ClaimSkus :
                  LET Ls == {i \in L : sales_lines[i].sku = sku}
                  IN  /\ Cardinality(SkuRowsOn(d, sku)) = (IF Ls = {} THEN 0 ELSE 1)
                      /\ \A k \in SkuRowsOn(d, sku) :
                            /\ sku_metrics_daily[k].units
                                  = SumOver(Ls, [i \in Ls |-> sales_lines[i].qty])
                            /\ sku_metrics_daily[k].revenue_net
                                  = SumOver(Ls, [i \in Ls |-> sales_lines[i].revenue_net])
                            /\ sku_metrics_daily[k].profit
                                  = SumOver(Ls, [i \in Ls |-> sales_lines[i].profit])

\* a successful recompute replaced rows of an earlier one; a date of its
\* range has two orders, one of them without lines, and a row counting one
C8_Witness ==
    /\ RecomputeOk
    /\ last.deleted > 0
    /\ \E k \in 1..Len(daily_metrics) :
          /\ daily_metrics[k].metric_date \in RecomputedDates
          /\ daily_metrics[k].orders_count = 1
          /\ Cardinality({o \in 1..Len(sales_orders) :
                 sales_orders[o].order_date = daily_metrics[k].metric_date}) = 2

----------------------------------------------------------------------------
(* Uploads of import files                                                 *)

MaxCsvRows == 2     \* data rows of an uploaded file

\* the cells of a row laid out under the header cells fn; data gives the
\* cells by column name, the other columns are empty
Layout(fn, data) ==
    [i \in 1..Len(fn) |-> IF Strip(fn[i]) \in DOMAIN data THEN data[Strip(fn[i])] ELSE ""]

\* the header cells with one of them rewritten
Rewrite(fn, old, new) == [i \in 1..Len(fn) |-> IF fn[i] = old THEN new ELSE fn[i]]

File(fn, datas) ==
    [filename |-> "orders.csv", utf8 |-> TRUE, fieldnames |-> fn,
     rows |-> [k \in 1..Len(datas) |-> Layout(fn, datas[k])]]

NoFile == [filename |-> "", utf8 |-> TRUE, fieldnames |-> << >>, rows |-> << >>]
NotUtf8 == [filename |-> "orders.csv", utf8 |-> FALSE, fieldnames |-> << >>, rows |-> << >>]

PurchBase ==
    ("Order Number" :> "PO1") @@ ("SKU" :> "A") @@ ("Qty" :> "2")
        @@ ("Net Unit Cost" :> "1,50") @@ ("Freight Total" :> "2")

PurchCells ==
    { <<"Order Number", "">>, <<"Order Number", "PO2">>, <<"SKU", "">>,
      <<"SKU", " A">>, <<"SKU", "B">>, <<"Qty", "">>, <<"Qty", "0">>,
      <<"Qty", "abc">>, <<"Qty", "1,50">>, <<"Net Unit Cost", "">>,
      <<"Net Unit Cost", "-1">>, <<"Order Date", "2024-13-01">>,
      <<"Order Date", "05/01/2024">>, <<"Arrival Date", "2024-13-01">>,
      <<"Freight Total", "abc">>, <<"Freight Total", "">>,
      <<"Packaging per unit", "abc">>, <<"Weight", "abc">>,
      <<"Allocation Method", "fifo">>, <<"Allocation Method", "QTY">> }

PurchRowData == {PurchBase} \cup {(c[1] :> c[2]) @@ PurchBase : c \in PurchCells}

\* the header rows of the purchases uploads other than the template: a
\* padded optional column, a padded required column, a repeated column, a
\* missing column, an extra column, no header row
PurchOtherHeaders ==
    { Rewrite(PURCHASE_IMPORT_HEADERS, "Freight Total", " Freight Total"),
      Rewrite(PURCHASE_IMPORT_HEADERS, "SKU", " SKU"),
      PURCHASE_IMPORT_HEADERS \o <<"SKU">>,
      Tail(PURCHASE_IMPORT_HEADERS),
      PURCHASE_IMPORT_HEADERS \o <<"Notes">>,
      SALES_IMPORT_HEADERS,
      << >> }

PurchFiles ==
    {File(PURCHASE_IMPORT_HEADERS, ds) : ds \in SeqsOf(PurchRowData, 0, MaxCsvRows)}
        \cup {File(fn, ds) : fn \in PurchOtherHeaders,
                             ds \in SeqsOf({PurchBase}, 0, MaxCsvRows)}
        \cup {NoFile, NotUtf8}

SalesBase ==
    ("Order Number" :> "S1") @@ ("Order Date" :> "2024-01-05") @@ ("SKU" :> "A")
        @@ ("Qty" :> "2") @@ ("Unit Price Gross" :> "1,50")
        @@ ("Order Discount Gross" :> "2")

SalesCells ==
    { <<"Order Number", "">>, <<"Order Number", "S2">>, <<"SKU", "">>,
      <<"SKU", "B">>, <<"Order Date", "">>, <<"Order Date", "2024-13-01">>,
      <<"Order Date", "2024-01-06">>, <<"Channel", "WEB">>, <<"Qty", "0">>,
      <<"Qty", "abc">>, <<"Unit Price Gross", "">>, <<"Unit Price Gross", "0">>,
      <<"Unit Price Gross", "-1">>, <<"Unit Price Gross", "abc">>,
      <<"Shipping Charged Gross", "abc">>, <<"Order Discount Gross", "abc">>,
      <<"Order Discount Gross", "">>, <<"Line Discount Gross", "abc">>,
      <<"Line Discount Gross", "2">> }

SalesRowData == {SalesBase} \cup {(c[1] :> c[2]) @@ SalesBase : c \in SalesCells}

SalesOtherHeaders ==
    { Rewrite(SALES_IMPORT_HEADERS, "Order Discount Gross", " Order Discount Gross"),
      Rewrite(SALES_IMPORT_HEADERS, "SKU", " SKU"),
      SALES_IMPORT_HEADERS \o <<"SKU">>,
      Tail(SALES_IMPORT_HEADERS),
      SALES_IMPORT_HEADERS \o <<"Notes">>,
      PURCHASE_IMPORT_HEADERS,
      << >> }

SalesFiles ==
    {File(SALES_IMPORT_HEADERS, ds) : ds \in SeqsOf(SalesRowData, 0, MaxCsvRows)}
        \cup {File(fn, ds) : fn \in SalesOtherHeaders,
                             ds \in SeqsOf({SalesBase}, 0, MaxCsvRows)}
        \cup {NoFile, NotUtf8}

\* a file has been chosen in the upload form of one of the two routes
InitParse ==
    /\ InitApp
    /\ today = 3
    /\ items = ("A" :> NewItemVat)
    /\ purchase_orders = << >>
    /\ purchase_lines = << >>
    /\ import_batches = << >>
    /\ sales_orders = << >>
    /\ sales_lines = << >>
    /\ daily_metrics = << >>
    /\ sku_metrics_daily = << >>
    /\ \/ \E f \in PurchFiles : last = [op |-> "upload", route |-> "purchases", file |-> f]
       \/ \E f \in SalesFiles : last = [op |-> "upload", route |-> "sales", file |-> f]

NextParse ==
    \/ last.op = "upload" /\ last.route = "purchases" /\ purchases_import_parse(last.file)
    \/ last.op = "upload" /\ last.route = "sales" /\ sales_import_parse(last.file)

SpecParse == InitParse /\ [][NextParse]_vars

----------------------------------------------------------------------------
(* Claims about the import parse                                           *)

ParseStep ==
    last.op = "upload" /\ last'.op \in {"purchases.import_parse", "sales.import_parse"}

ExpectedOf(route) ==
    IF route = "purchases" THEN PURCHASE_IMPORT_HEADERS ELSE SALES_IMPORT_HEADERS

\* the header cells of the file are the template names, none missing and
\* none extra
ClaimHeadersExact(route, file) ==
    {file.fieldnames[i] : i \in 1..Len(file.fieldnames)}
        = {ExpectedOf(route)[i] : i \in 1..Len(ExpectedOf(route))}

\* some data row of the file fails the row validation of the route
ClaimRowError(route, file) ==
    \E k \in 1..Len(file.rows) :
        IF route = "purchases"
        THEN PurchRowErrors(file.fieldnames, file.rows[k]) # {}
        ELSE SalesRowErrors(file.fieldnames, file.rows[k]) # {}

\* C10 as stated: import_parse creates an ImportBatch only when the header
\* cells are exactly the template names and every data row passes
\* validation; on any header issue or row error it creates no ImportBatch;
\* it never creates an order, line or item row.
C10_Original ==
    [][ParseStep =>
         /\ (import_batches' # import_batches =>
                 /\ ClaimHeadersExact(last.route, last.file)
                 /\ ~ClaimRowError(last.route, last.file))
         /\ ((~ClaimHeadersExact(last.route, last.file)
               \/ ClaimRowError(last.route, last.file))
                 => import_batches' = import_batches)
         /\ UNCHANGED <<items, purchase_orders, purchase_lines,
                        sales_orders, sales_lines>>]_vars

----------------------------------------------------------------------------
(* The role check on one request                                           *)

\* roles a users row may carry: the three known ones and unknown ones
RoleInputs == {"viewer", "user", "admin", "guest", "Admin", ""}
\* the min_role a route may be wrapped with
MinRoleInputs == {"viewer", "user", "admin", "owner", ""}

InitRole ==
    /\ \E r \in RoleInputs, a \in BOOLEAN :
          users = << [email |-> "u@x", role |-> r, is_active |-> a] >>
    /\ current_user \in {None, Some(1)}
    /\ saved_searches = << >>
    /\ config = Config
    /\ schema = create_all
    /\ store = << >>
    /\ now = 0
    /\ today = 1
    /\ items = ("A" :> NewItemVat)
    /\ purchase_orders = << >>
    /\ purchase_lines = << >>
    /\ import_batches = << >>
    /\ sales_orders = << >>
    /\ sales_lines = << >>
    /\ daily_metrics = << >>
    /\ sku_metrics_daily = << >>
    /\ last = [op |-> "init"]

\* a request to a route wrapped by require_role(min_role)
require_role_call(min_role) ==
    /\ last' = [op |-> "require_role", min_role |-> min_role,
                status |-> require_role(load_user, min_role)]
    /\ UNCHANGED <<appvars, today, items, purchase_orders, purchase_lines,
                   import_batches, sales_orders, sales_lines, daily_metrics,
                   sku_metrics_daily>>

NextRole == \E m \in MinRoleInputs : require_role_call(m)

SpecRole == InitRole /\ [][NextRole]_vars

----------------------------------------------------------------------------
(* Claims about the role check                                             *)

RoleCall == last.op = "require_role"

\* the rank of a user's role as the claim states it: unknown ranks as viewer
ClaimUserRank(role) ==
    CASE role = "viewer" -> 1 [] role = "user" -> 2 [] role = "admin" -> 3
      [] OTHER -> 1

\* the rank of a route's min_role as the claim states it: unknown ranks as admin
ClaimMinRank(role) ==
    CASE role = "viewer" -> 1 [] role = "user" -> 2 [] role = "admin" -> 3
      [] OTHER -> 3

\* the role of the requesting user, viewer for the anonymous user
ClaimRole == IF IsNone(current_user) THEN "viewer" ELSE users[Val(current_user)].role

\* C12: a handler wrapped by require_role(min_role) runs exactly when the
\* user is authenticated, the rank of the user's role is at least the rank of
\* min_role and is_active is True; an unauthenticated request gets 401 and
\* every other rejected request gets 403; an unknown user role ranks as
\* viewer and an unknown min_role as admin.
C12_RoleOrdering ==
    RoleCall =>
        LET cu   == load_user
            runs == /\ cu.is_authenticated
                    /\ ClaimUserRank(ClaimRole) >= ClaimMinRank(last.min_role)
                    /\ cu.is_active = TRUE
        IN  /\ (last.status = 0) <=> runs
            /\ ~cu.is_authenticated => last.status = 401
            /\ (cu.is_authenticated /\ ~runs) => last.status = 403

\* C12 witness: an active user of an unknown role is let into a viewer route
\* and kept out of a route of an unknown min_role.
C12_Witness ==
    /\ RoleCall /\ ~IsNone(current_user)
    /\ users[1].role = "guest" /\ users[1].is_active
    /\ last.min_role = "owner" /\ last.status = 403
    /\ require_role(load_user, "viewer") = 0

----------------------------------------------------------------------------
(* Requests to the data-changing routes under sessions of every role      *)

AuthUsers ==
    << [email |-> "a@x", role |-> "admin", is_active |-> TRUE],
       [email |-> "v@x", role |-> "viewer", is_active |-> TRUE] >>

AuthPurchBatch ==
    [kind |-> "purchase_import",
     orders |-> << [order_number |-> "PO1", order_date |-> None,
                    arrival_date |-> Some(1), freight_total |-> Some(10000),
                    allocation_method |-> "value",
                    lines |-> << [sku |-> "A", qty |-> 2, unit_cost_net |-> 1000,
                                  packaging_per_unit |-> 50] >>] >>]

AuthSalesBatch ==
    [kind |-> "sales_import",
     orders |-> << [order_number |-> "S1", channel |-> "web", order_date |-> 2,
                    order_discount_gross |-> None,
                    lines |-> << [sku |-> "A", qty |-> 1, unit_price_gross |-> 100,
                                  line_discount_gross |-> 0] >>] >>]

AuthBatches == <<AuthPurchBatch, AuthSalesBatch>>

\* the files uploaded: one valid file per import
AuthPurchFile == File(PURCHASE_IMPORT_HEADERS, <<PurchBase>>)
AuthSalesFile == File(SALES_IMPORT_HEADERS, <<SalesBase>>)

\* the catalog CSV uploaded: SKU B, and a row without SKU
AuthCatalogRows ==
    << [sku |-> "B", description |-> "b", vat_rate_pct |-> None],
       [sku |-> "", description |-> "c", vat_rate_pct |-> Some(5)] >>

InitAuth ==
    /\ users = AuthUsers
    /\ saved_searches = << >>
    /\ current_user = None
    /\ config \in { [ALLOW_DB_PATCH |-> "0", login_view |-> None],
                    [ALLOW_DB_PATCH |-> "1", login_view |-> Some("auth.login")] }
    /\ schema = create_all
    /\ store = << >>
    /\ now = 0
    /\ today = 3
    /\ items = ("A" :> NewItemVat)
    /\ purchase_orders = << >>
    /\ purchase_lines = << >>
    /\ import_batches = AuthBatches
    /\ sales_orders = << >>
    /\ sales_lines = << >>
    /\ daily_metrics = << >>
    /\ sku_metrics_daily = << >>
    /\ last = [op |-> "init"]

\* Every route is requested under every session.  A request that passes its
\* wrappers runs the handler on one input per route: the new item is SKU B,
\* the user forms name the viewer's account, the cost form repeats the
\* imported freight, an upload is made while no earlier upload is pending, a
\* batch is committed once, and one search is saved at a time.
NextAuth ==
    \/ \E em \in {"a@x", "v@x"}, ok \in BOOLEAN : login(em, ok)
    \/ logout
    \/ abort("catalog.items_new", EditRoute)
    \/ EditRoute = 0 /\ items_new("B", NewItemVat)
    \/ abort("catalog.items_edit", EditRoute)
    \/ EditRoute = 0 /\ items_edit("B", "B", NewItemVat)
    \/ abort("catalog.import_csv", EditRoute)
    \/ EditRoute = 0 /\ import_csv(AuthCatalogRows)
    \/ abort("purchases.edit_costs", EditRoute)
    \/ EditRoute = 0 /\ \E p \in 1..Len(purchase_orders) : edit_costs(p, Some(10000), "value")
    \/ abort("purchases.import_parse", EditRoute)
    \/ EditRoute = 0 /\ import_batches = AuthBatches
          /\ purchases_import_parse(AuthPurchFile)
    \/ abort("purchases.import_commit", EditRoute)
    \/ EditRoute = 0 /\ purchase_orders = << >> /\ purchases_import_commit(1, TRUE)
    \/ abort("sales.import_parse", EditRoute)
    \/ EditRoute = 0 /\ import_batches = AuthBatches
          /\ sales_import_parse(AuthSalesFile)
    \/ abort("sales.import_commit", EditRoute)
    \/ EditRoute = 0 /\ sales_import_commit(2, TRUE, "")
    \/ abort("saved_searches.save", EditRoute)
    \/ EditRoute = 0 /\ saved_searches = << >> /\ save("sales", "mine", "q=a")
    \/ abort("saved_searches.delete", EditRoute)
    \/ EditRoute = 0 /\ delete(1)
    \/ abort("admin.users_new", AdminRoute)
    \/ AdminRoute = 0 /\ users_new("v@x", "user", TRUE)
    \/ abort("admin.users_edit", AdminRoute)
    \/ AdminRoute = 0 /\ \E r \in {"viewer", "user"} : users_edit(Len(AuthUsers), r, TRUE)
    \/ abort("admin.metrics_recompute", AdminRoute)
    \/ AdminRoute = 0 /\ metrics_recompute(Some(1), Some(3), FALSE)
    \/ abort("admin.db_patch_home", Wrapped(AdminRoute, _require_db_patch_enabled))
    \/ AdminRoute = 0 /\ db_patch_home
    \/ abort("admin.db_patch_run", Wrapped(AdminRoute, _require_db_patch_enabled))
    \/ AdminRoute = 0 /\ \E ok \in BOOLEAN : db_patch_run(ok)

SpecAuth == InitAuth /\ [][NextAuth]_vars

----------------------------------------------------------------------------
(* Claims about the read-only viewer                                       *)

\* the routes that change data
DataChangingRoutes ==
    {"catalog.items_new", "catalog.items_edit", "catalog.import_csv",
     "purchases.edit_costs", "purchases.import_parse", "purchases.import_commit",
     "sales.import_parse", "sales.import_commit", "saved_searches.save",
     "saved_searches.delete", "admin.users_new", "admin.users_edit",
     "admin.metrics_recompute", "admin.db_patch_run"}

\* the session is of an authenticated user whose role is viewer
ViewerSession ==
    /\ ~IsNone(current_user)
    /\ users[Val(current_user)].role = "viewer"
    /\ users[Val(current_user)].is_active

\* C11: a request of an authenticated viewer to a data-changing route is
\* rejected with 403 and leaves every table, and the schema, unchanged.
C11_ViewerReadOnly ==
    [][(ViewerSession /\ last'.op \in DataChangingRoutes)
         => /\ "status" \in DOMAIN last' /\ last'.status = 403
            /\ UNCHANGED <<users, saved_searches, items, purchase_orders,
                           purchase_lines, import_batches, sales_orders,
                           sales_lines, daily_metrics, sku_metrics_daily,
                           schema>>]_vars

\* C11 witness: a viewer's import commit was rejected while a user of a
\* higher role had committed the same batch before.
C11_Witness ==
    /\ ViewerSession
    /\ last = [op |-> "purchases.import_commit", status |-> 403]
    /\ purchase_orders # << >>

----------------------------------------------------------------------------
(* The schema patch under every setting, session and drifted schema        *)

\* a schema without some tables: their columns, constraints and indexes go
\* with them
DropTables(sc, T) ==
    [tables |-> sc.tables \ T,
     columns |-> {c \in sc.columns : c[1] \notin T},
     constraints |-> {c \in sc.constraints : c[2] \notin T},
     indexes |-> {i \in sc.indexes : i[2] \notin T}]

\* the schemas the patch may meet: the one of the models, and older ones
\* that lack tables or columns added since
SchemaInputs ==
    { [DropTables(create_all, T) EXCEPT !.columns = @ \ C] :
        T \in { {}, {"saved_searches"}, {"daily_metrics", "sku_metrics_daily"},
                {"users", "saved_searches"},
                {"saved_searches", "daily_metrics", "sku_metrics_daily"},
                create_all.tables \ {"users"}, create_all.tables },
        C \in { {}, {<<"import_batches", "kind">>},
                {<<"saved_searches", "context">>} } }

\* values of the ALLOW_DB_PATCH environment variable
AllowInputs == {"0", "1", "", "true"}

PatchUsers ==
    << [email |-> "a@x", role |-> "admin", is_active |-> TRUE],
       [email |-> "v@x", role |-> "viewer", is_active |-> TRUE],
       [email |-> "b@x", role |-> "admin", is_active |-> FALSE] >>

InitPatch ==
    /\ users = PatchUsers
    /\ saved_searches = << >>
    /\ current_user \in {None} \cup {Some(i) : i \in 1..Len(PatchUsers)}
    /\ \E a \in AllowInputs, v \in {None, Some("auth.login")} :
          config = [ALLOW_DB_PATCH |-> a, login_view |-> v]
    /\ schema \in SchemaInputs
    /\ store = << >>
    /\ now = 0
    /\ today = 1
    /\ items = ("A" :> NewItemVat)
    /\ purchase_orders = << >>
    /\ purchase_lines = << >>
    /\ import_batches = << >>
    /\ sales_orders = << >>
    /\ sales_lines = << >>
    /\ daily_metrics = << >>
    /\ sku_metrics_daily = << >>
    /\ last = [op |-> "init"]

NextPatch ==
    \/ abort("admin.db_patch_home", Wrapped(AdminRoute, _require_db_patch_enabled))
    \/ AdminRoute = 0 /\ db_patch_home
    \/ abort("admin.db_patch_run", Wrapped(AdminRoute, _require_db_patch_enabled))
    \/ AdminRoute = 0 /\ \E ok \in BOOLEAN : db_patch_run(ok)

SpecPatch == InitPatch /\ [][NextPatch]_vars

----------------------------------------------------------------------------
(* Claims about the schema patch                                           *)

PatchRoutes == {"admin.db_patch_home", "admin.db_patch_run"}

\* the request is made while the executor is not enabled
PatchRequestWhenOff == last'.op \in PatchRoutes /\ config.ALLOW_DB_PATCH # "1"

\* the session is of an active admin
ActiveAdminSession ==
    /\ ~IsNone(current_user)
    /\ users[Val(current_user)].role = "admin"
    /\ users[Val(current_user)].is_active

\* the session is of an active user
ActiveSession == ~IsNone(current_user) /\ users[Val(current_user)].is_active

\* C13 as stated: unless ALLOW_DB_PATCH is exactly "1", both routes answer
\* 404 and no statement is executed, for every active user.
C13_Original ==
    [][(PatchRequestWhenOff /\ ActiveSession)
         => (last'.status = 404 /\ schema' = schema)]_vars

\* C13: unless ALLOW_DB_PATCH is exactly "1", no request to db_patch_home or
\* db_patch_run executes a statement or changes the schema; an active admin
\* gets 404, any other active user 403 from require_admin, and a request
\* without an active user is turned away by login_required (401, or a
\* redirect to the login view when one is configured).
C13_Gate ==
    [][PatchRequestWhenOff =>
         /\ schema' = schema
         /\ "executed" \notin DOMAIN last'
         /\ last'.status =
               IF ActiveAdminSession THEN 404
               ELSE IF ActiveSession THEN 403
               ELSE IF IsNone(config.login_view) THEN 401 ELSE 302]_vars

\* C13 witness: an active admin's run was answered 404 while the setting is
\* "true", on a schema the patch would change.
C13_Witness ==
    /\ ActiveAdminSession /\ config.ALLOW_DB_PATCH = "true"
    /\ last = [op |-> "admin.db_patch_run", status |-> 404]
    /\ RunPatch(schema, TRUE).ok /\ RunPatch(schema, TRUE).schema # schema

\* the last request was a run of the patch that succeeded
PatchSucceeded ==
    last.op = "admin.db_patch_run" /\ last.status = 200 /\ ~last.error

\* C14: after a successful db_patch_run, running the patch again succeeds,
\* whatever the rows hold, and leaves the tables, columns, constraints and
\* indexes exactly as they were after the first run.
C14_Idempotent ==
    PatchSucceeded =>
        \A ok \in BOOLEAN :
            /\ RunPatch(schema, ok).ok
            /\ RunPatch(schema, ok).schema = schema

\* C14 witness: a successful run that created the saved_searches table, its
\* constraints and its indexes.
C14_Witness ==
    /\ PatchSucceeded
    /\ <<"saved_searches", "params">> \in schema.columns
    /\ <<"fk_saved_searches_user_id", "saved_searches">> \in schema.constraints
    /\ <<"ix_saved_searches_context", "saved_searches">> \in schema.indexes

----------------------------------------------------------------------------
(* The search cache under gets, sets, prunes, searches and a moving clock  *)

MaxNow == 3     \* the clock stops here

CacheQueries == {"ab", "cd", "ef"}
CacheKeys == {<<"viewer", q>> : q \in CacheQueries}
CacheValues == {"r1", "r2"}

InitCache ==
    /\ users = << [email |-> "v@x", role |-> "viewer", is_active |-> TRUE] >>
    /\ saved_searches = << >>
    /\ current_user = Some(1)
    /\ config = Config
    /\ schema = create_all
    /\ store = << >>
    /\ now = 0
    /\ today = 1
    /\ items = ("A" :> NewItemVat)
    /\ purchase_orders = << >>
    /\ purchase_lines = << >>
    /\ import_batches = << >>
    /\ sales_orders = << >>
    /\ sales_lines = << >>
    /\ daily_metrics = << >>
    /\ sku_metrics_daily = << >>
    /\ last = [op |-> "init"]

NextCache ==
    \/ \E k \in CacheKeys : cache_get(k)
    \/ \E k \in CacheKeys, v \in CacheValues : cache_set(k, v)
    \/ cache_prune
    \/ \E q \in CacheQueries \cup ShortQueries, r \in CacheValues, dt \in {0, 1} :
          now + dt <= MaxNow /\ api_search(q, r, dt)
    \/ now < MaxNow /\ Tick

SpecCache == InitCache /\ [][NextCache]_vars

----------------------------------------------------------------------------
(* Claims about the cache                                                  *)

\* the keys whose entry has not expired at clock reading t
ClaimLive(t) == {store[i].key : i \in {j \in 1..Len(store) : store[j].expires_at >= t}}
ClaimKeys == {store[i].key : i \in 1..Len(store)}
ClaimKeysAfter == {store'[i].key : i \in 1..Len(store')}

\* a call of TTLCache.set, directly or from get_or_set on a miss
ClaimSetStep ==
    \/ last'.op = "cache.set"
    \/ last'.op = "search.api_search" /\ last'.q \notin ShortQueries /\ ~last'.cached
ClaimSetKey == IF last'.op = "cache.set" THEN last'.key ELSE <<"viewer", last'.q>>

\* the entries before the call, less those an earlier get of the same
\* get_or_set has dropped
ClaimHeld ==
    IF last'.op = "cache.set" THEN ClaimKeys
    ELSE ClaimKeys \ ({ClaimSetKey} \ ClaimLive(now))

\* C15: a set on a cache holding fewer than max_items entries removes
\* nothing; on a cache holding at least max_items entries it removes every
\* expired entry and, only if the cache is still at capacity, exactly one
\* further entry, and then stores the key; the number of entries never
\* exceeds max_items.
C15_SizeBound ==
    /\ [](Len(store) <= MaxItems)
    /\ [][ClaimSetStep =>
            LET k    == ClaimSetKey
                held == ClaimHeld
                live == held \cap ClaimLive(now')
            IN  IF Cardinality(held) < MaxItems
                THEN ClaimKeysAfter = held \cup {k}
                ELSE IF Cardinality(live) < MaxItems
                THEN ClaimKeysAfter = live \cup {k}
                ELSE \E x \in live : ClaimKeysAfter = (live \ {x}) \cup {k}]_vars

\* C15 witness: a set of a new key on a full cache of unexpired entries
\* dropped one of them.
C15_Witness ==
    /\ last.op = "cache.set" /\ last.held = MaxItems
    /\ now <= TtlSeconds
    /\ Len(store) = MaxItems
    /\ store[MaxItems].key = last.key /\ store[MaxItems].val = last.val

\* C16: a get of a stored key answers the stored value while the clock is
\* not later than the entry's expiry and leaves the entry; once the clock is
\* later it answers None and removes the entry; a get of any other key
\* answers None.  The stored value and expiry of a key are those of its
\* latest set, whose expiry is its clock reading plus ttl: no other call
\* changes an entry it keeps.  A search answered from the cache answers the
\* stored value of an entry that has not expired.
C16_Expiry ==
    [][/\ last'.op = "cache.get" =>
            IF last'.key \notin ClaimKeys
            THEN last'.ret = None /\ store' = store
            ELSE LET en == Entry(store, last'.key)
                 IN  IF now <= en.expires_at
                     THEN last'.ret = Some(en.val) /\ store' = store
                     ELSE last'.ret = None /\ last'.key \notin ClaimKeysAfter
       /\ ClaimSetStep =>
            LET val == IF last'.op = "cache.set" THEN last'.val ELSE last'.results
            IN  Entry(store', ClaimSetKey) =
                   [key |-> ClaimSetKey, expires_at |-> now' + TtlSeconds, val |-> val]
       /\ \A k \in ClaimKeys \cap ClaimKeysAfter :
            (ClaimSetStep /\ k = ClaimSetKey) \/ Entry(store', k) = Entry(store, k)
       /\ (last'.op = "search.api_search" /\ last'.cached) =>
            LET k == <<"viewer", last'.q>>
            IN  /\ k \in ClaimKeys
                /\ last'.results = Entry(store, k).val
                /\ now <= Entry(store, k).expires_at]_vars

\* C16 witness: a get at the very second of expiry was answered from the
\* cache.
C16_Witness ==
    /\ last.op = "cache.get" /\ last.ret # None
    /\ last.key \in {store[i].key : i \in 1..Len(store)}
    /\ Entry(store, last.key).expires_at = now
    /\ now = TtlSeconds

----------------------------------------------------------------------------
(* Claims about freight conservation                                       *)

\* the purchase orders with freight_total > 0 and at least one line
FreightOrders ==
    {p \in 1..Len(purchase_orders) :
        /\ OrZero(purchase_orders[p].freight_total) > 0
        /\ LinesOf(purchase_lines, p) # << >>}

\* the sum of freight_allocated_total over the lines of order p
AllocSum(p) ==
    SumSeq([k \in 1..Len(purchase_lines) |->
              IF purchase_lines[k].purchase_order_id = p
              THEN Val(purchase_lines[k].freight_allocated_total) ELSE 0])

\* sum(base) over the lines of order p, base as C1 states it
OrderBaseTotal(p) == ClaimBaseTotal(purchase_lines[LinesOf(purchase_lines, p)[1]])

\* C17 as stated: on an order with freight_total > 0 and at least one line
\* the freight_allocated_total values of its lines sum to freight_total.
C17_Original ==
    \A p \in FreightOrders :
        AllocSum(p) = Val(purchase_orders[p].freight_total)

\* C17 (amended): on an order with freight_total > 0 and at least one line
\* the freight_allocated_total values sum to freight_total to within half a
\* tick (0.00005) per line when sum(base) > 0, each share being rounded to
\* the 4 decimals of its column; when sum(base) <= 0 they sum to 0.
C17_Conserved ==
    \A p \in FreightOrders :
        IF OrderBaseTotal(p) > 0
        THEN 2 * Abs(AllocSum(p) - Val(purchase_orders[p].freight_total))
                 <= Len(LinesOf(purchase_lines, p))
        ELSE AllocSum(p) = 0

\* C17 witness: an order with freight whose two lines both got a non-zero
\* share, under each of the two methods in turn.
C17_Witness ==
    \E p \in FreightOrders :
        /\ Len(LinesOf(purchase_lines, p)) >= 2
        /\ OrderBaseTotal(p) > 0
        /\ last.op \in {"purchases.import_commit", "purchases.edit_costs"}
        /\ \A k \in 1..Len(purchase_lines) :
              purchase_lines[k].purchase_order_id = p =>
                  Val(purchase_lines[k].freight_allocated_total) > 0
        /\ AllocSum(p) = Val(purchase_orders[p].freight_total)

----------------------------------------------------------------------------
(* Claims about the stored sales lines                                     *)

\* the lines the last commit created, each with the payload order it is of
CreatedLines ==
    UNION { { <<i, c[2]>> : i \in SLinesOf(c[1]) } : c \in CreatedBy }

\* the gross of a line after all discounts as the claim states it,
\* max(0, max(0, qty * unit_price_gross - line discount) - allocated order
\* discount), the allocation being D * base / sum(base): <<num, den>>
ClaimGrossAfter(i, o) ==
    LET D == OrZero(o.order_discount_gross)
        T == ClaimSumBase(SLinesOf(sales_lines[i].sales_order_id))
        b == ClaimLineBase(sales_lines[i])
    IN  IF D > 0 /\ T > 0
        THEN (IF b * T - D * b < 0 THEN <<0, 1>> ELSE <<b * T - D * b, T>>)
        ELSE <<b, 1>>

\* gross / (1 + vat_rate / 100) of that gross, as <<num, den>>
ClaimNet(i, o) ==
    <<ClaimGrossAfter(i, o)[1] * 100,
      ClaimGrossAfter(i, o)[2] * (100 + sales_lines[i].vat_rate)>>

\* C18 as stated: every created line has cost_total = unit_cost_basis * qty,
\* profit = revenue_net - cost_total, qty > 0 and revenue_net exactly the net
\* of its gross after all discounts, hence never negative.
C18_Original ==
    \A c \in CreatedLines :
        LET l == sales_lines[c[1]]
        IN  /\ l.cost_total = l.unit_cost_basis * l.qty
            /\ l.profit = l.revenue_net - l.cost_total
            /\ l.qty > 0
            /\ l.revenue_net * ClaimNet(c[1], c[2])[2] = ClaimNet(c[1], c[2])[1]
            /\ l.revenue_net >= 0

\* C18 (amended): every created line has qty > 0 and revenue_net >= 0;
\* revenue_net is the net of its gross after all discounts rounded to the 4
\* decimals of its column; cost_total is within (qty + 1) / 2 ticks of
\* unit_cost_basis * qty and profit within one tick of revenue_net -
\* cost_total, each column being rounded on its own from the unrounded value.
C18_StoredLine ==
    \A c \in CreatedLines :
        LET l == sales_lines[c[1]]
        IN  /\ 2 * Abs(l.cost_total - l.unit_cost_basis * l.qty) <= l.qty + 1
            /\ Abs(l.profit - (l.revenue_net - l.cost_total)) <= 1
            /\ l.qty > 0
            /\ l.revenue_net =
                   Numeric4(ClaimNet(c[1], c[2])[1], ClaimNet(c[1], c[2])[2])
            /\ l.revenue_net >= 0

\* C18 witness: a created line of qty 2 with a share of the order discount,
\* a positive revenue and a cost taken from the purchase history.
C18_Witness ==
    \E c \in CreatedLines :
        LET l == sales_lines[c[1]]
        IN  /\ l.qty = 2
            /\ OrZero(l.order_discount_alloc_gross) > 0
            /\ l.revenue_net > 0
            /\ l.unit_cost_basis > 0
            /\ l.cost_total > l.unit_cost_basis
            /\ l.profit > 0

====
